---- MODULE Spec2Model ----
(***************************************************************************)
(* kubeoptic: the navigation state machine (internal/tui/navigation), the  *)
(* event router (internal/tui/events) and the streaming log viewer         *)
(* (internal/tui/components LogViewer), modelled as state machines.        *)
(*                                                                         *)
(* SpecNav : NavigationState driven by direct calls and by RouteEvent.     *)
(* SpecLog : LogViewer driven by Init, command completions and Update.     *)
(***************************************************************************)
EXTENDS Integers, Sequences, FiniteSets, TLC

VARIABLES
    \* ---- navigation.NavigationState fields
    currentView, focusedPanel, previousView, helpVisible, searchMode,
    navigationHistory,
    \* ---- the last navigation call / routed event and what it returned
    navStep

navVars == <<currentView, focusedPanel, previousView, helpVisible, searchMode,
             navigationHistory, navStep>>

VARIABLES
    \* ---- LogDataProvider: GetSelectedPod() # nil, GetLogBuffer()
    podSelected, providerBuffer,
    \* ---- LogViewer fields
    logLines, filteredLines, logStream, streamCancelled,
    followMode, showTimestamps, wrapLines,
    lvSearchMode, searchInput, searchQuery, searchResults, currentResult,
    searchHistory, lastError, showError,
    \* ---- LogViewer.viewport: its scroll offset and the number of lines of
    \* ---- the content it was last given
    vpYOffset, vpLines,
    \* ---- the bubbletea runtime: commands issued and not yet run, messages
    \* ---- produced and not yet handled
    lvInited, pendingStart, pendingReads, inbox,
    \* ---- history: every line appendLogData was given that is not empty, and
    \* ---- the last message Update handled
    arrived, logStep,
    \* ---- the stream handle and its source: whether the handle implements
    \* ---- SetReadDeadline, and whether the source has stopped sending
    readDeadline, sourceStalled

streamVars == <<readDeadline, sourceStalled>>

lvFields == <<logLines, filteredLines, logStream, streamCancelled,
              followMode, showTimestamps, wrapLines,
              lvSearchMode, searchInput, searchQuery, searchResults, currentResult,
              searchHistory, lastError, showError, vpYOffset, vpLines>>

logVars == <<podSelected, providerBuffer, streamVars, lvFields, lvInited,
             pendingStart, pendingReads, inbox, arrived, logStep>>

VARIABLES
    \* ---- models.Kubeoptic fields
    focusedView, contexts, namespaces, pods, filteredPods,
    selectedContext, selectedNamespace, selectedPod, koLogStream, isFollowing,
    \* ---- the last Kubeoptic call and the error it returned
    koStep,
    \* ---- tui.App fields (appFocusedPanel, appHelpVisible and appErr are
    \* ---- the App's focusedPanel, helpVisible and err)
    viewMode, appFocusedPanel, appHelpVisible, appErr, ready, initialized,
    \* ---- the last message App.Update handled and the command it returned
    appStep

koFields == <<focusedView, contexts, namespaces, pods, filteredPods,
              selectedContext, selectedNamespace, selectedPod, koLogStream,
              isFollowing>>

appFields == <<viewMode, appFocusedPanel, appHelpVisible, appErr, ready,
               initialized>>

appVars == <<koFields, koStep, appFields, appStep>>

vars == <<navVars, logVars, appVars>>

\* Longest navigationHistory the model explores (the slice is unbounded in the code).
MaxHistory == 4

(***************************************************************************)
(* models.ViewType and navigation.FocusState                               *)
(***************************************************************************)
ViewType == {"ContextView", "NamespaceView", "PodView", "LogView"}

FocusState == {"FocusContext", "FocusNamespace", "FocusPod", "FocusSearch",
               "FocusLog", "FocusStatusBar"}

\* The NavigationState object as one value.
Nav == [currentView |-> currentView, focusedPanel |-> focusedPanel,
        previousView |-> previousView, helpVisible |-> helpVisible,
        searchMode |-> searchMode, navigationHistory |-> navigationHistory]

NewNavigationState ==
    [currentView |-> "ContextView", focusedPanel |-> "FocusContext",
     previousView |-> "ContextView", helpVisible |-> FALSE,
     searchMode |-> FALSE, navigationHistory |-> <<"ContextView">>]

\* The focus NavigateToView and ExitSearchMode give a view.
ViewFocus(view) ==
    CASE view = "ContextView"   -> "FocusContext"
      [] view = "NamespaceView" -> "FocusNamespace"
      [] view = "PodView"       -> "FocusPod"
      [] view = "LogView"       -> "FocusLog"

\* ValidTransitions: the table of (From, To) pairs.
ValidTransitions ==
    { <<"ContextView", "NamespaceView">>, <<"NamespaceView", "PodView">>,
      <<"PodView", "LogView">>, <<"LogView", "PodView">>,
      <<"PodView", "NamespaceView">>, <<"NamespaceView", "ContextView">> }

IsValidTransition(from, to) == <<from, to>> \in ValidTransitions

(***************************************************************************)
(* NavigationState methods.  Each takes the state n and returns the state  *)
(* after the call and the command returned ("nil" when none).              *)
(***************************************************************************)
Ret(n, cmd) == [nav |-> n, cmd |-> cmd]

\* A variant that consults the transition table before applying the change.
NavigateToView_TableChecked(n, view) ==
    IF n.currentView # view /\ IsValidTransition(n.currentView, view)
    THEN Ret([n EXCEPT !.previousView = n.currentView,
                       !.currentView = view,
                       !.navigationHistory = Append(n.navigationHistory, view),
                       !.focusedPanel = ViewFocus(view),
                       !.searchMode = FALSE],
             "FocusChangedMsg")
    ELSE Ret(n, "nil")

\* A variant that forgets to clear search mode and reset the focus.
NavigateToView_KeepsSearch(n, view) ==
    IF n.currentView # view
    THEN Ret([n EXCEPT !.previousView = n.currentView,
                       !.currentView = view,
                       !.navigationHistory = Append(n.navigationHistory, view)],
             "FocusChangedMsg")
    ELSE Ret(n, "nil")

\* A variant that records a request for the current view in the history and
\* answers it with a focus command.
NavigateToView_RecordsSameView(n, view) ==
    Ret([n EXCEPT !.previousView = n.currentView,
                  !.currentView = view,
                  !.navigationHistory = Append(n.navigationHistory, view),
                  !.focusedPanel = ViewFocus(view),
                  !.searchMode = FALSE],
        "FocusChangedMsg")

NavigateToView(n, view) ==
    IF n.currentView # view
    THEN Ret([n EXCEPT !.previousView = n.currentView,
                       !.currentView = view,
                       !.navigationHistory = Append(n.navigationHistory, view),
                       !.focusedPanel = ViewFocus(view),
                       !.searchMode = FALSE],
             "FocusChangedMsg")
    ELSE Ret(n, "nil")

\* A variant whose back-map sends every view straight to the Context view.
NavigateBack_ToContext(n) ==
    IF n.currentView = "ContextView" THEN Ret(n, "nil")
    ELSE NavigateToView(n, "ContextView")

\* A variant that goes back by dropping the last history entry.
NavigateBack_PopsHistory(n) ==
    IF n.currentView = "ContextView" THEN Ret(n, "nil")
    ELSE LET to == CASE n.currentView = "LogView"       -> "PodView"
                     [] n.currentView = "PodView"       -> "NamespaceView"
                     [] n.currentView = "NamespaceView" -> "ContextView"
         IN Ret([n EXCEPT !.previousView = n.currentView,
                          !.currentView = to,
                          !.navigationHistory =
                              SubSeq(n.navigationHistory, 1,
                                     Len(n.navigationHistory) - 1),
                          !.focusedPanel = ViewFocus(to),
                          !.searchMode = FALSE],
                "FocusChangedMsg")

NavigateBack(n) ==
    CASE n.currentView = "LogView"       -> NavigateToView(n, "PodView")
      [] n.currentView = "PodView"       -> NavigateToView(n, "NamespaceView")
      [] n.currentView = "NamespaceView" -> NavigateToView(n, "ContextView")
      [] n.currentView = "ContextView"   -> Ret(n, "nil")

\* A variant of NextPanel that also leaves search mode.
NextPanel_ClearsSearch(n) ==
    CASE n.currentView \in {"ContextView", "LogView"} ->
            Ret([n EXCEPT !.searchMode = FALSE], "nil")
      [] n.currentView = "NamespaceView" ->
            Ret([n EXCEPT !.searchMode = FALSE,
                          !.focusedPanel =
                    CASE n.focusedPanel = "FocusContext"   -> "FocusNamespace"
                      [] n.focusedPanel = "FocusNamespace" -> "FocusContext"
                      [] OTHER -> n.focusedPanel],
                "FocusChangedMsg")
      [] n.currentView = "PodView" ->
            Ret([n EXCEPT !.searchMode = FALSE,
                          !.focusedPanel =
                    CASE n.focusedPanel = "FocusContext"   -> "FocusNamespace"
                      [] n.focusedPanel = "FocusNamespace" -> "FocusPod"
                      [] n.focusedPanel = "FocusPod"       -> "FocusContext"
                      [] OTHER -> n.focusedPanel],
                "FocusChangedMsg")

NextPanel(n) ==
    CASE n.currentView \in {"ContextView", "LogView"} -> Ret(n, "nil")
      [] n.currentView = "NamespaceView" ->
            Ret([n EXCEPT !.focusedPanel =
                    CASE n.focusedPanel = "FocusContext"   -> "FocusNamespace"
                      [] n.focusedPanel = "FocusNamespace" -> "FocusContext"
                      [] OTHER -> n.focusedPanel],
                "FocusChangedMsg")
      [] n.currentView = "PodView" ->
            Ret([n EXCEPT !.focusedPanel =
                    CASE n.focusedPanel = "FocusContext"   -> "FocusNamespace"
                      [] n.focusedPanel = "FocusNamespace" -> "FocusPod"
                      [] n.focusedPanel = "FocusPod"       -> "FocusContext"
                      [] OTHER -> n.focusedPanel],
                "FocusChangedMsg")

\* A variant of PrevPanel that walks the panels in the forward direction.
PrevPanel_Forward(n) == NextPanel(n)

PrevPanel(n) ==
    CASE n.currentView \in {"ContextView", "LogView"} -> Ret(n, "nil")
      [] n.currentView = "NamespaceView" ->
            Ret([n EXCEPT !.focusedPanel =
                    CASE n.focusedPanel = "FocusContext"   -> "FocusNamespace"
                      [] n.focusedPanel = "FocusNamespace" -> "FocusContext"
                      [] OTHER -> n.focusedPanel],
                "FocusChangedMsg")
      [] n.currentView = "PodView" ->
            Ret([n EXCEPT !.focusedPanel =
                    CASE n.focusedPanel = "FocusContext"   -> "FocusPod"
                      [] n.focusedPanel = "FocusNamespace" -> "FocusContext"
                      [] n.focusedPanel = "FocusPod"       -> "FocusNamespace"
                      [] OTHER -> n.focusedPanel],
                "FocusChangedMsg")

ToggleHelp(n) ==
    IF ~n.helpVisible
    THEN Ret([n EXCEPT !.helpVisible = TRUE], "ShowHelpMsg")
    ELSE Ret([n EXCEPT !.helpVisible = FALSE], "HideHelpMsg")

EnterSearchMode(n) ==
    Ret([n EXCEPT !.searchMode = TRUE, !.focusedPanel = "FocusSearch"],
        "SearchQueryChangedMsg")

\* A variant of ExitSearchMode that leaves the focus where it is.
ExitSearchMode_KeepsFocus(n) ==
    Ret([n EXCEPT !.searchMode = FALSE], "ClearSearchMsg")

ExitSearchMode(n) ==
    Ret([n EXCEPT !.searchMode = FALSE, !.focusedPanel = ViewFocus(n.currentView)],
        "ClearSearchMsg")

(***************************************************************************)
(* keys.DefaultKeyMap: the keys of each binding; key.Matches is membership.*)
(***************************************************************************)
DefaultKeyMap ==
    [Up |-> {"up", "k"}, Down |-> {"down", "j"}, Left |-> {"left", "h"},
     Right |-> {"right", "l"}, Enter |-> {"enter"}, Back |-> {"esc", "backspace"},
     Home |-> {"home", "g"}, End |-> {"end", "G"},
     NextPanel |-> {"tab"}, PrevPanel |-> {"shift+tab"},
     Search |-> {"/"}, ClearSearch |-> {"ctrl+c"}, Follow |-> {"f"},
     Refresh |-> {"r", "ctrl+r"},
     Help |-> {"?", "F1"}, Quit |-> {"q", "ctrl+c"},
     ScrollUp |-> {"ctrl+u"}, ScrollDown |-> {"ctrl+d"},
     PageUp |-> {"pgup", "b"}, PageDown |-> {"pgdown", " "},
     ToggleWrap |-> {"w"}, SaveLogs |-> {"s"},
     SwitchContext |-> {"c"}, SelectNamespace |-> {"n"}, SelectPod |-> {"p"}]

Matches(msg, binding) == msg \in binding

\* Every bound key, and one key no binding names.
Keys == (UNION {DefaultKeyMap[b] : b \in DOMAIN DefaultKeyMap}) \cup {"x"}

\* keys.HandleGlobalKeys: (handled, cmd).
HandleGlobalKeys(msg, keyMap) ==
    CASE Matches(msg, keyMap.Quit) -> [handled |-> TRUE, cmd |-> "Quit"]
      [] Matches(msg, keyMap.Help) -> [handled |-> TRUE, cmd |-> "ShowHelpMsg"]
      [] OTHER                     -> [handled |-> FALSE, cmd |-> "nil"]

IsNavigationKey(msg, keyMap) ==
    \/ Matches(msg, keyMap.Up)    \/ Matches(msg, keyMap.Down)
    \/ Matches(msg, keyMap.Left)  \/ Matches(msg, keyMap.Right)
    \/ Matches(msg, keyMap.NextPanel) \/ Matches(msg, keyMap.PrevPanel)

\* NavigationState.HandleNavigation
HandleNavigation(n, msg, keyMap) ==
    CASE Matches(msg, keyMap.Back)            -> NavigateBack(n)
      [] Matches(msg, keyMap.NextPanel)       -> NextPanel(n)
      [] Matches(msg, keyMap.PrevPanel)       -> PrevPanel(n)
      [] Matches(msg, keyMap.Search)          -> EnterSearchMode(n)
      [] Matches(msg, keyMap.Help)            -> ToggleHelp(n)
      [] Matches(msg, keyMap.SwitchContext)   -> NavigateToView(n, "ContextView")
      [] Matches(msg, keyMap.SelectNamespace) -> NavigateToView(n, "NamespaceView")
      [] Matches(msg, keyMap.SelectPod)       -> NavigateToView(n, "PodView")
      [] OTHER                                -> Ret(n, "nil")

(***************************************************************************)
(* events.EventRouter.  A result is the navigation state after the call,   *)
(* the command returned and the handled flag.  tea.Batch(a, b) of message  *)
(* a and command b is written "a+b".                                       *)
(***************************************************************************)
Routed(n, cmd, handled) == [nav |-> n, cmd |-> cmd, handled |-> handled]

Batch(first, cmd) == IF cmd = "nil" THEN first ELSE first \o "+" \o cmd

handleContextViewKeys(n, msg, keyMap) ==
    CASE Matches(msg, keyMap.Enter) ->
            LET r == NavigateToView(n, "NamespaceView")
            IN Routed(r.nav, Batch("ContextSelectedMsg", r.cmd), TRUE)
      [] Matches(msg, keyMap.Refresh) -> Routed(n, "RefreshDataMsg", TRUE)
      [] OTHER -> Routed(n, "nil", FALSE)

\* A variant that confirms whichever panel is focused.
handleNamespaceViewKeys_AnyPanel(n, msg, keyMap) ==
    CASE Matches(msg, keyMap.Enter) ->
            LET r == NavigateToView(n, "PodView")
            IN Routed(r.nav, Batch("NamespacesLoadedMsg", r.cmd), TRUE)
      [] Matches(msg, keyMap.Refresh) -> Routed(n, "RefreshDataMsg", TRUE)
      [] OTHER -> Routed(n, "nil", FALSE)

handleNamespaceViewKeys(n, msg, keyMap) ==
    CASE Matches(msg, keyMap.Enter) ->
            IF n.focusedPanel = "FocusNamespace"
            THEN LET r == NavigateToView(n, "PodView")
                 IN Routed(r.nav, Batch("NamespacesLoadedMsg", r.cmd), TRUE)
            ELSE Routed(n, "nil", FALSE)
      [] Matches(msg, keyMap.Refresh) -> Routed(n, "RefreshDataMsg", TRUE)
      [] OTHER -> Routed(n, "nil", FALSE)

handlePodViewKeys(n, msg, keyMap) ==
    CASE Matches(msg, keyMap.Enter) ->
            IF n.focusedPanel = "FocusPod"
            THEN LET r == NavigateToView(n, "LogView")
                 IN Routed(r.nav, Batch("PodSelectedMsg", r.cmd), TRUE)
            ELSE Routed(n, "nil", FALSE)
      [] Matches(msg, keyMap.Refresh) -> Routed(n, "RefreshDataMsg", TRUE)
      [] Matches(msg, keyMap.ClearSearch) ->
            IF n.searchMode
            THEN LET r == ExitSearchMode(n) IN Routed(r.nav, r.cmd, TRUE)
            ELSE Routed(n, "ClearSearchMsg", TRUE)
      [] OTHER -> Routed(n, "nil", FALSE)

\* A variant that forwards the save key to the component.
handleLogViewKeys_ForwardsSave(n, msg, keyMap) ==
    CASE Matches(msg, keyMap.Follow)     -> Routed(n, "ToggleFollowMsg", TRUE)
      [] Matches(msg, keyMap.ToggleWrap) -> Routed(n, "ToggleWrapMsg", TRUE)
      [] OTHER -> Routed(n, "nil", FALSE)

handleLogViewKeys(n, msg, keyMap) ==
    CASE Matches(msg, keyMap.Follow)     -> Routed(n, "ToggleFollowMsg", TRUE)
      [] Matches(msg, keyMap.SaveLogs)   -> Routed(n, "SaveLogsMsg", TRUE)
      [] Matches(msg, keyMap.ToggleWrap) -> Routed(n, "ToggleWrapMsg", TRUE)
      [] OTHER -> Routed(n, "nil", FALSE)

\* A variant that reports every key as handled while search mode is on.
handleSearchKeys_SwallowsTyping(n, msg, keyMap) ==
    CASE Matches(msg, keyMap.Back) ->
            LET r == ExitSearchMode(n) IN Routed(r.nav, r.cmd, TRUE)
      [] Matches(msg, keyMap.Enter) ->
            LET r == ExitSearchMode(n) IN Routed(r.nav, r.cmd, TRUE)
      [] Matches(msg, keyMap.ClearSearch) ->
            LET r == ExitSearchMode(n)
            IN Routed(r.nav, Batch("ClearSearchMsg", r.cmd), TRUE)
      [] OTHER -> Routed(n, "nil", TRUE)

handleSearchKeys(n, msg, keyMap) ==
    CASE Matches(msg, keyMap.Back) ->
            LET r == ExitSearchMode(n) IN Routed(r.nav, r.cmd, TRUE)
      [] Matches(msg, keyMap.Enter) ->
            LET r == ExitSearchMode(n) IN Routed(r.nav, r.cmd, TRUE)
      [] Matches(msg, keyMap.ClearSearch) ->
            LET r == ExitSearchMode(n)
            IN Routed(r.nav, Batch("ClearSearchMsg", r.cmd), TRUE)
      [] OTHER -> Routed(n, "nil", FALSE)

\* The view-specific dispatch at the end of handleKeyEvent.
handleViewKeys(n, msg, keyMap) ==
    CASE n.currentView = "ContextView"   -> handleContextViewKeys(n, msg, keyMap)
      [] n.currentView = "NamespaceView" -> handleNamespaceViewKeys(n, msg, keyMap)
      [] n.currentView = "PodView"       -> handlePodViewKeys(n, msg, keyMap)
      [] n.currentView = "LogView"       -> handleLogViewKeys(n, msg, keyMap)

\* A variant that gives search mode the key before the global keys.
handleKeyEvent_SearchFirst(n, msg, keyMap) ==
    IF n.searchMode THEN handleSearchKeys(n, msg, keyMap)
    ELSE LET g == HandleGlobalKeys(msg, keyMap) IN
         IF g.handled THEN Routed(n, g.cmd, TRUE)
         ELSE LET nv == HandleNavigation(n, msg, keyMap) IN
              IF nv.cmd # "nil" THEN Routed(nv.nav, nv.cmd, TRUE)
              ELSE handleViewKeys(nv.nav, msg, keyMap)

handleKeyEvent(n, msg, keyMap) ==
    LET g == HandleGlobalKeys(msg, keyMap) IN
    IF g.handled THEN Routed(n, g.cmd, TRUE)
    ELSE LET nv == HandleNavigation(n, msg, keyMap) IN
         IF nv.cmd # "nil" THEN Routed(nv.nav, nv.cmd, TRUE)
         ELSE IF nv.nav.searchMode THEN handleSearchKeys(nv.nav, msg, keyMap)
         ELSE handleViewKeys(nv.nav, msg, keyMap)

(***************************************************************************)
(* Navigation actions                                                      *)
(***************************************************************************)
SetNav(n) ==
    /\ Len(n.navigationHistory) <= MaxHistory
    /\ UNCHANGED <<logVars, appVars>>
    /\ currentView' = n.currentView
    /\ focusedPanel' = n.focusedPanel
    /\ previousView' = n.previousView
    /\ helpVisible' = n.helpVisible
    /\ searchMode' = n.searchMode
    /\ navigationHistory' = n.navigationHistory

\* What the last call was, what it returned, and the view, focus and search
\* mode it started from.
Step(op, arg, cmd, handled) ==
    [op |-> op, arg |-> arg, cmd |-> cmd, handled |-> handled,
     from |-> currentView, focusBefore |-> focusedPanel, searchBefore |-> searchMode]

DoNavigateToView ==
    \E view \in ViewType :
        LET r == NavigateToView(Nav, view) IN
        /\ SetNav(r.nav)
        /\ navStep' = Step("NavigateToView", view, r.cmd, FALSE)

DoNavigateBack ==
    LET r == NavigateBack(Nav) IN
    /\ SetNav(r.nav)
    /\ navStep' = Step("NavigateBack", "", r.cmd, FALSE)

DoNextPanel ==
    LET r == NextPanel(Nav) IN
    /\ SetNav(r.nav)
    /\ navStep' = Step("NextPanel", "", r.cmd, FALSE)

DoPrevPanel ==
    LET r == PrevPanel(Nav) IN
    /\ SetNav(r.nav)
    /\ navStep' = Step("PrevPanel", "", r.cmd, FALSE)

DoToggleHelp ==
    LET r == ToggleHelp(Nav) IN
    /\ SetNav(r.nav)
    /\ navStep' = Step("ToggleHelp", "", r.cmd, FALSE)

DoEnterSearchMode ==
    LET r == EnterSearchMode(Nav) IN
    /\ SetNav(r.nav)
    /\ navStep' = Step("EnterSearchMode", "", r.cmd, FALSE)

DoExitSearchMode ==
    LET r == ExitSearchMode(Nav) IN
    /\ SetNav(r.nav)
    /\ navStep' = Step("ExitSearchMode", "", r.cmd, FALSE)

\* EventRouter.RouteEvent on a tea.KeyMsg.
RouteEvent ==
    \E msg \in Keys :
        LET r == handleKeyEvent(Nav, msg, DefaultKeyMap) IN
        /\ SetNav(r.nav)
        /\ navStep' = Step("RouteEvent", msg, r.cmd, r.handled)

\* Messages that are no key, mouse or resize message.
OtherMsgs == {"tui.ErrorMsg", "tui.LogChunkMsg"}

\* EventRouter.RouteEvent on any other message: the default branch.
RouteOtherMsg ==
    \E msg \in OtherMsgs :
        /\ SetNav(Nav)
        /\ navStep' = Step("RouteEvent", msg, "nil", FALSE)

InitNav ==
    /\ currentView = NewNavigationState.currentView
    /\ focusedPanel = NewNavigationState.focusedPanel
    /\ previousView = NewNavigationState.previousView
    /\ helpVisible = NewNavigationState.helpVisible
    /\ searchMode = NewNavigationState.searchMode
    /\ navigationHistory = NewNavigationState.navigationHistory
    /\ navStep = [op |-> "NewNavigationState", arg |-> "", cmd |-> "nil",
                  handled |-> FALSE, from |-> "ContextView",
                  focusBefore |-> "FocusContext", searchBefore |-> FALSE]

NextNav ==
    \/ RouteOtherMsg
    \/ DoNavigateToView
    \/ DoNavigateBack
    \/ DoNextPanel
    \/ DoPrevPanel
    \/ DoToggleHelp
    \/ DoEnterSearchMode
    \/ DoExitSearchMode
    \/ RouteEvent


(***************************************************************************)
(* components.LogViewer                                                    *)
(*                                                                         *)
(* A string is a sequence of one-character strings; NL is the newline.     *)
(* The viewport and the text input are widgets of the terminal toolkit:    *)
(* of the text input the model keeps its value, of the viewport its offset *)
(* and the number of lines of its content.                                 *)
(***************************************************************************)
NL == "NL"

\* Scaled stand-ins for the sizes of part_004 lines 25, 30 and 34
\* (maxLogLines = 10000, maxSearchResults = 1000, maxSearchHistory = 50).
maxLogLines == 3
maxSearchResults == 2
maxSearchHistory == 1

\* Lines handed to appendLogData in one run, and characters in the search input.
MaxArrived == 5
MaxInputLen == 1

\* Height of the viewport in lines (NewLogViewer gives it height - 4).
viewportHeight == 1

Min(a, b) == IF a < b THEN a ELSE b

Max(a, b) == IF a > b THEN a ELSE b

\* strings.ToLower, one character.
LowerChar(c) == IF c = "A" THEN "a" ELSE IF c = "B" THEN "b" ELSE c

ToLower(s) == [i \in 1..Len(s) |-> LowerChar(s[i])]

\* strings.Contains
Contains(s, sub) ==
    \E i \in 1..(Len(s) - Len(sub) + 1) : SubSeq(s, i, i + Len(sub) - 1) = sub

\* strings.Split(s, sep) for a one-character separator: the segments between
\* separators, the empty ones included; Split("") is one empty segment.
RECURSIVE SplitFrom(_, _, _, _)
SplitFrom(s, sep, i, cur) ==
    IF i > Len(s) THEN <<cur>>
    ELSE IF s[i] = sep THEN <<cur>> \o SplitFrom(s, sep, i + 1, <<>>)
    ELSE SplitFrom(s, sep, i + 1, Append(cur, s[i]))

Split(s, sep) == SplitFrom(s, sep, 1, <<>>)

\* strings.Join(parts, sep)
RECURSIVE Join(_, _)
Join(parts, sep) ==
    IF Len(parts) = 0 THEN <<>>
    ELSE IF Len(parts) = 1 THEN parts[1]
    ELSE parts[1] \o <<sep>> \o Join(Tail(parts), sep)

\* strings.TrimSuffix(s, "\n")
TrimSuffix(s, c) ==
    IF Len(s) > 0 /\ s[Len(s)] = c THEN SubSeq(s, 1, Len(s) - 1) ELSE s

\* s[len(s)-n:] of a slice longer than n.
LastN(s, n) == SubSeq(s, Len(s) - n + 1, Len(s))

\* The LogViewer object as one value.
LV == [logLines |-> logLines, filteredLines |-> filteredLines,
       logStream |-> logStream, streamCancelled |-> streamCancelled,
       followMode |-> followMode, showTimestamps |-> showTimestamps,
       wrapLines |-> wrapLines, searchMode |-> lvSearchMode,
       searchInput |-> searchInput, searchQuery |-> searchQuery,
       searchResults |-> searchResults, currentResult |-> currentResult,
       searchHistory |-> searchHistory, lastError |-> lastError,
       showError |-> showError, yOffset |-> vpYOffset, vpLines |-> vpLines]

\* NewLogViewer: no stream handle, follow mode on, wrapping on, the viewport
\* at the top of the one line "No logs available".
NewLogViewer ==
    [logLines |-> <<>>, filteredLines |-> <<>>,
     logStream |-> "nil", streamCancelled |-> FALSE,
     followMode |-> TRUE, showTimestamps |-> FALSE, wrapLines |-> TRUE,
     searchMode |-> FALSE, searchInput |-> <<>>, searchQuery |-> <<>>,
     searchResults |-> <<>>, currentResult |-> 0,
     searchHistory |-> <<>>, lastError |-> "nil", showError |-> FALSE,
     yOffset |-> 0, vpLines |-> 1]

\* A handler's result: the viewer after it and the command it returns.
LvRet(lv, cmd) == [lv |-> lv, cmd |-> cmd]

(***************************************************************************)
(* viewport.Model of the bubbles library, as the viewer uses it: the offset *)
(* is kept between 0 and the number of content lines less the height.      *)
(***************************************************************************)
maxYOffset(lv) == Max(0, lv.vpLines - viewportHeight)

SetYOffset(lv, n) == [lv EXCEPT !.yOffset = Min(Max(n, 0), maxYOffset(lv))]

GotoTop(lv) == SetYOffset(lv, 0)

GotoBottom(lv) == SetYOffset(lv, maxYOffset(lv))

\* SetContent with a content of n lines: an offset past the last line goes
\* to the bottom.
SetContent(lv, n) ==
    LET c == [lv EXCEPT !.vpLines = n]
    IN IF c.yOffset > n - 1 THEN GotoBottom(c) ELSE c

scrollToBottom(lv) == GotoBottom(lv)

\* jumpToSearchResult: the viewport is moved to the match's index in logLines
\* less half the viewport height.
jumpToSearchResult(lv, index) ==
    IF index < 0 \/ index >= Len(lv.searchResults) THEN lv
    ELSE LET lineNum == lv.searchResults[index + 1]
             targetLine == lineNum - (viewportHeight \div 2)
         IN SetYOffset(lv, IF targetLine < 0 THEN 0 ELSE targetLine)

\* renderLogContent: the number of lines of the content View gives the
\* viewport, one per filtered line, or the one line "No logs available".
renderLogContent(lv) ==
    IF Len(lv.filteredLines) = 0 THEN 1 ELSE Len(lv.filteredLines)

\* The matching pass of updateFilteredLines over logLines[i..]: the matching
\* lines, and their 0-based indices up to maxSearchResults of them.
RECURSIVE FilterFrom(_, _, _, _, _)
FilterFrom(lines, searchLower, i, filtered, results) ==
    IF i > Len(lines) THEN [filtered |-> filtered, results |-> results]
    ELSE IF Contains(ToLower(lines[i]), searchLower)
         THEN FilterFrom(lines, searchLower, i + 1, Append(filtered, lines[i]),
                         IF Len(results) < maxSearchResults
                         THEN Append(results, i - 1) ELSE results)
         ELSE FilterFrom(lines, searchLower, i + 1, filtered, results)

\* A variant that compares the lower-cased lines with the query as typed.
updateFilteredLines_QueryAsTyped(lv) ==
    IF lv.searchQuery = <<>>
    THEN [lv EXCEPT !.filteredLines = lv.logLines, !.searchResults = <<>>]
    ELSE LET f == FilterFrom(lv.logLines, lv.searchQuery, 1, <<>>, <<>>)
         IN [lv EXCEPT !.filteredLines = f.filtered, !.searchResults = f.results]

updateFilteredLines(lv) ==
    IF lv.searchQuery = <<>>
    THEN [lv EXCEPT !.filteredLines = lv.logLines, !.searchResults = <<>>]
    ELSE LET f == FilterFrom(lv.logLines, ToLower(lv.searchQuery), 1, <<>>, <<>>)
         IN [lv EXCEPT !.filteredLines = f.filtered, !.searchResults = f.results]

\* A variant that, at capacity, keeps the oldest lines and drops the new one.
RECURSIVE PushLines_KeepOldest(_, _)
PushLines_KeepOldest(buf, lines) ==
    IF Len(lines) = 0 THEN buf
    ELSE IF Head(lines) = <<>> THEN PushLines_KeepOldest(buf, Tail(lines))
    ELSE LET b == Append(buf, Head(lines))
         IN PushLines_KeepOldest(
                IF Len(b) > maxLogLines THEN SubSeq(b, 1, maxLogLines) ELSE b,
                Tail(lines))

\* A variant that pushes the empty lines of a chunk as well.
RECURSIVE PushLines_KeepsEmpty(_, _)
PushLines_KeepsEmpty(buf, lines) ==
    IF Len(lines) = 0 THEN buf
    ELSE LET b == Append(buf, Head(lines))
         IN PushLines_KeepsEmpty(
                IF Len(b) > maxLogLines THEN LastN(b, maxLogLines) ELSE b,
                Tail(lines))

\* The loop of appendLogData: each line that is not empty is appended and the
\* buffer is cut back to its last maxLogLines lines.
RECURSIVE PushLines(_, _)
PushLines(buf, lines) ==
    IF Len(lines) = 0 THEN buf
    ELSE IF Head(lines) = <<>> THEN PushLines(buf, Tail(lines))
    ELSE LET b == Append(buf, Head(lines))
         IN PushLines(IF Len(b) > maxLogLines THEN LastN(b, maxLogLines) ELSE b,
                      Tail(lines))

appendLogData(lv, data) ==
    updateFilteredLines([lv EXCEPT !.logLines = PushLines(lv.logLines, Split(data, NL))])

setError(lv, err) == [lv EXCEPT !.lastError = err, !.showError = TRUE]

clearError(lv) == [lv EXCEPT !.lastError = "nil", !.showError = FALSE]

stopLogStream(lv) == [lv EXCEPT !.logStream = "nil", !.streamCancelled = TRUE]

updateSearchResults(lv) ==
    LET u == updateFilteredLines(lv) IN
    IF Len(u.searchResults) > 0
    THEN jumpToSearchResult([u EXCEPT !.currentResult = 0], 0)
    ELSE u

\* A variant that never evicts an entry of the history.
addToSearchHistory_NoEviction(lv, query) ==
    IF \E i \in 1..Len(lv.searchHistory) : lv.searchHistory[i] = query
    THEN lv
    ELSE [lv EXCEPT !.searchHistory = Append(lv.searchHistory, query)]

addToSearchHistory(lv, query) ==
    IF \E i \in 1..Len(lv.searchHistory) : lv.searchHistory[i] = query
    THEN lv
    ELSE LET h == Append(lv.searchHistory, query)
         IN [lv EXCEPT !.searchHistory =
                IF Len(h) > maxSearchHistory THEN Tail(h) ELSE h]

enterSearchMode(lv) == [lv EXCEPT !.searchMode = TRUE]

\* A variant that drops the query and the matches on leaving search mode.
exitSearchMode_DropsQuery(lv) ==
    [lv EXCEPT !.searchMode = FALSE, !.searchQuery = <<>>,
               !.searchResults = <<>>, !.currentResult = 0]

exitSearchMode(lv) == [lv EXCEPT !.searchMode = FALSE]

executeSearch(lv) ==
    LET query == lv.searchInput IN
    exitSearchMode(
        IF query # <<>>
        THEN updateSearchResults(
                 addToSearchHistory([lv EXCEPT !.searchQuery = query], query))
        ELSE lv)

nextSearchResult(lv) ==
    IF Len(lv.searchResults) = 0 THEN lv
    ELSE LET c == (lv.currentResult + 1) % Len(lv.searchResults)
         IN jumpToSearchResult([lv EXCEPT !.currentResult = c], c)

\* A variant that stops at the first match instead of wrapping to the last.
prevSearchResult_StopsAtFirst(lv) ==
    IF Len(lv.searchResults) = 0 THEN lv
    ELSE LET c == Max(lv.currentResult - 1, 0)
         IN jumpToSearchResult([lv EXCEPT !.currentResult = c], c)

prevSearchResult(lv) ==
    IF Len(lv.searchResults) = 0 THEN lv
    ELSE LET c == (lv.currentResult - 1 + Len(lv.searchResults))
                      % Len(lv.searchResults)
         IN jumpToSearchResult([lv EXCEPT !.currentResult = c], c)

clearSearch(lv) ==
    updateFilteredLines([lv EXCEPT !.searchQuery = <<>>, !.searchResults = <<>>,
                                   !.currentResult = 0, !.searchInput = <<>>])

\* The keys the log viewer is sent: its bindings, and three characters to type.
InputChars == {"a", "B", "x"}

LvKeys == {"/", "f", "w", "t", "n", "N", "esc", "enter", "backspace",
           "home", "g", "end", "G"} \cup InputChars

\* The text input's Update on a key: a character is appended while there is
\* room, backspace removes the last one, any other key leaves the value.
textinputUpdate(value, msg) ==
    IF msg \in InputChars
    THEN (IF Len(value) < MaxInputLen THEN Append(value, msg) ELSE value)
    ELSE IF msg = "backspace" /\ Len(value) > 0
    THEN SubSeq(value, 1, Len(value) - 1)
    ELSE value

handleKeyPress(lv, msg) ==
    CASE msg = "/" -> LvRet(enterSearchMode(lv), "nil")
      [] msg = "f" -> LvRet(lv, "ToggleFollowMsg")
      [] msg = "w" -> LvRet([lv EXCEPT !.wrapLines = ~lv.wrapLines], "nil")
      [] msg = "t" -> LvRet([lv EXCEPT !.showTimestamps = ~lv.showTimestamps], "nil")
      [] msg = "n" /\ Len(lv.searchResults) > 0 -> LvRet(nextSearchResult(lv), "nil")
      [] msg = "N" /\ Len(lv.searchResults) > 0 -> LvRet(prevSearchResult(lv), "nil")
      [] msg = "esc" -> LvRet(clearSearch(lv), "nil")
      [] msg \in {"home", "g"} -> LvRet(GotoTop(lv), "nil")
      [] msg \in {"end", "G"} -> LvRet(GotoBottom(lv), "nil")
      [] OTHER -> LvRet(lv, "nil")

handleSearchMode(lv, msg) ==
    CASE msg = "enter" -> LvRet(executeSearch(lv), "nil")
      [] msg = "esc"   -> LvRet(exitSearchMode(lv), "nil")
      [] OTHER ->
            LET typed == [lv EXCEPT !.searchInput = textinputUpdate(lv.searchInput, msg)]
            IN IF typed.searchInput # typed.searchQuery
               THEN LvRet(updateSearchResults(
                              [typed EXCEPT !.searchQuery = typed.searchInput]), "nil")
               ELSE LvRet(typed, "nil")

\* tui.LogChunkMsg
LogChunkMsg(data, eof, err) ==
    [type |-> "LogChunkMsg", Data |-> data, EOF |-> eof, Error |-> err]

\* A variant that stops reading after a read error.
handleLogChunk_NoRetry(lv, msg) ==
    IF msg.Error # "nil" THEN LvRet(setError(lv, msg.Error), "nil")
    ELSE IF msg.EOF THEN LvRet(lv, "nil")
    ELSE LET a == appendLogData(lv, msg.Data)
         IN LvRet(IF a.followMode THEN scrollToBottom(a) ELSE a, "streamLogs")

\* A variant that keeps reading after the end of the stream.
handleLogChunk_ReadsAfterEOF(lv, msg) ==
    IF msg.Error # "nil" THEN LvRet(setError(lv, msg.Error), "streamLogs")
    ELSE IF msg.EOF THEN LvRet(lv, "streamLogs")
    ELSE LET a == appendLogData(lv, msg.Data)
         IN LvRet(IF a.followMode THEN scrollToBottom(a) ELSE a, "streamLogs")

handleLogChunk(lv, msg) ==
    IF msg.Error # "nil" THEN LvRet(setError(lv, msg.Error), "streamLogs")
    ELSE IF msg.EOF THEN LvRet(lv, "nil")
    ELSE LET a == appendLogData(lv, msg.Data)
         IN LvRet(IF a.followMode THEN scrollToBottom(a) ELSE a, "streamLogs")

\* The message the command of startLogStream produces.
startLogStream(selected) ==
    IF ~selected
    THEN [type |-> "ErrorMsg", Error |-> "no pod selected"]
    ELSE [type |-> "LogStreamStartedMsg"]

\* What a read on an open handle can return: a line with its newline, the end
\* of the stream, or a failure of the read (a timeout among them).
StreamLines == { <<"A", "b", NL>>, <<"b", NL>>, <<NL>> }

ReadErrors == {"read timeout"}

\* The messages the command of streamLogs can produce, a set with no element
\* when the command returns nil.
streamLogs(stream, buffer) ==
    IF stream = "nil"
    THEN (IF Len(buffer) > 0
          THEN {LogChunkMsg(Join(buffer, NL), FALSE, "nil")}
          ELSE {})
    ELSE {LogChunkMsg(TrimSuffix(line, NL), FALSE, "nil") : line \in StreamLines}
         \cup {LogChunkMsg(<<>>, TRUE, "nil")}
         \cup {LogChunkMsg(<<>>, FALSE, e) : e \in ReadErrors}

\* What a read returns when the source sends nothing and the read deadline
\* passes.
StalledRead == {LogChunkMsg(<<>>, FALSE, e) : e \in ReadErrors}

(***************************************************************************)
(* Log viewer actions                                                      *)
(***************************************************************************)
SetLV(lv) ==
    /\ logLines' = lv.logLines
    /\ filteredLines' = lv.filteredLines
    /\ logStream' = lv.logStream
    /\ streamCancelled' = lv.streamCancelled
    /\ followMode' = lv.followMode
    /\ showTimestamps' = lv.showTimestamps
    /\ wrapLines' = lv.wrapLines
    /\ lvSearchMode' = lv.searchMode
    /\ searchInput' = lv.searchInput
    /\ searchQuery' = lv.searchQuery
    /\ searchResults' = lv.searchResults
    /\ currentResult' = lv.currentResult
    /\ searchHistory' = lv.searchHistory
    /\ lastError' = lv.lastError
    /\ showError' = lv.showError
    /\ vpYOffset' = lv.yOffset
    /\ vpLines' = lv.vpLines

\* The lines of a chunk that are not empty, in order.
NonEmptyLines(data) == SelectSeq(Split(data, NL), LAMBDA l : l # <<>>)

\* The kind of a chunk message: a read error, the end of the stream, or data.
ChunkKind(m) ==
    IF m.Error # "nil" THEN "error" ELSE IF m.EOF THEN "eof" ELSE "data"

\* The commands a handler's result puts in flight.
Issue(cmd) ==
    pendingReads' = pendingReads + (IF cmd = "streamLogs" THEN 1 ELSE 0)

\* LogViewer.Init: tea.Batch(startLogStream(), streamLogs()), once per run.
LvInit ==
    /\ ~lvInited
    /\ lvInited' = TRUE
    /\ pendingStart' = pendingStart + 1
    /\ pendingReads' = pendingReads + 1
    /\ logStep' = "Init"
    /\ UNCHANGED <<podSelected, providerBuffer, lvFields, inbox, arrived>>
    /\ UNCHANGED <<navVars, streamVars, appVars>>

\* The runtime runs the command of startLogStream.
RunStartLogStream ==
    /\ pendingStart > 0
    /\ pendingStart' = pendingStart - 1
    /\ inbox' = inbox \cup {startLogStream(podSelected)}
    /\ UNCHANGED <<podSelected, providerBuffer, lvFields, lvInited, pendingReads,
                   arrived, logStep>>
    /\ UNCHANGED <<navVars, streamVars, appVars>>

\* The runtime runs the command of streamLogs and the read completes. On a
\* source that has stopped sending, ReadString returns only when the handle
\* took the read deadline, and then with the timeout error; on a handle
\* without SetReadDeadline it does not return.
RunStreamLogs ==
    /\ pendingReads > 0
    /\ pendingReads' = pendingReads - 1
    /\ (logStream # "nil" /\ sourceStalled) => readDeadline
    /\ LET out == IF logStream # "nil" /\ sourceStalled
                  THEN StalledRead
                  ELSE streamLogs(logStream, providerBuffer) IN
         IF out = {} THEN inbox' = inbox
         ELSE \E m \in out : inbox' = inbox \cup {m}
    /\ UNCHANGED <<podSelected, providerBuffer, lvFields, lvInited, pendingStart,
                   arrived, logStep>>
    /\ UNCHANGED <<navVars, streamVars, appVars>>

\* LogViewer.Update on a tui.LogChunkMsg.
UpdateLogChunk ==
    \E m \in inbox :
        /\ m.type = "LogChunkMsg"
        /\ Len(arrived) + Len(NonEmptyLines(m.Data)) <= MaxArrived
        /\ LET r == handleLogChunk(LV, m) IN
             /\ SetLV(r.lv)
             /\ Issue(r.cmd)
        /\ inbox' = inbox \ {m}
        /\ arrived' = IF ChunkKind(m) = "data"
                      THEN arrived \o NonEmptyLines(m.Data) ELSE arrived
        /\ logStep' = IF ChunkKind(m) = "error" /\ logStep \in {"chunk:error", "chunk:error:again"}
                      THEN "chunk:error:again"
                      ELSE "chunk:" \o ChunkKind(m)
        /\ UNCHANGED <<podSelected, providerBuffer, lvInited, pendingStart>>
        /\ UNCHANGED <<navVars, streamVars, appVars>>

\* LogViewer.Update on the tui.ErrorMsg of a failed start.
UpdateErrorMsg ==
    \E m \in inbox :
        /\ m.type = "ErrorMsg"
        /\ SetLV(setError(LV, m.Error))
        /\ inbox' = inbox \ {m}
        /\ logStep' = "ErrorMsg"
        /\ UNCHANGED <<podSelected, providerBuffer, lvInited, pendingStart,
                       pendingReads, arrived>>
        /\ UNCHANGED <<navVars, streamVars, appVars>>

\* LogViewer.Update on tui.LogStreamStartedMsg.
UpdateLogStreamStarted ==
    \E m \in inbox :
        /\ m.type = "LogStreamStartedMsg"
        /\ SetLV(clearError(LV))
        /\ inbox' = inbox \ {m}
        /\ logStep' = "LogStreamStartedMsg"
        /\ UNCHANGED <<podSelected, providerBuffer, lvInited, pendingStart,
                       pendingReads, arrived>>
        /\ UNCHANGED <<navVars, streamVars, appVars>>

\* LogViewer.Update on tui.LogStreamStoppedMsg, which the viewer is sent from
\* outside at any time.
UpdateLogStreamStopped ==
    /\ SetLV(stopLogStream(LV))
    /\ logStep' = "LogStreamStoppedMsg"
    /\ UNCHANGED <<podSelected, providerBuffer, lvInited, pendingStart,
                   pendingReads, inbox, arrived>>
    /\ UNCHANGED <<navVars, streamVars, appVars>>

\* LogViewer.Update on tui.ToggleFollowMsg.
UpdateToggleFollow ==
    /\ LET t == [LV EXCEPT !.followMode = ~followMode]
       IN SetLV(IF t.followMode THEN scrollToBottom(t) ELSE t)
    /\ logStep' = "ToggleFollowMsg"
    /\ UNCHANGED <<podSelected, providerBuffer, lvInited, pendingStart,
                   pendingReads, inbox, arrived>>
    /\ UNCHANGED <<navVars, streamVars, appVars>>

\* LogViewer.Update on a tea.KeyMsg, for a key of the set K.
UpdateKey(K) ==
    \E msg \in K :
        LET r == IF lvSearchMode THEN handleSearchMode(LV, msg)
                 ELSE handleKeyPress(LV, msg) IN
        /\ SetLV(r.lv)
        /\ logStep' = "key:" \o msg
        /\ UNCHANGED <<podSelected, providerBuffer, lvInited, pendingStart,
                       pendingReads, inbox, arrived>>
        /\ UNCHANGED <<navVars, streamVars, appVars>>

\* LogViewer.View: the rendering pass hands the viewport the content of the
\* filtered lines.
View ==
    /\ SetLV(SetContent(LV, renderLogContent(LV)))
    /\ logStep' = "View"
    /\ UNCHANGED <<podSelected, providerBuffer, lvInited, pendingStart,
                   pendingReads, inbox, arrived>>
    /\ UNCHANGED <<navVars, streamVars, appVars>>

\* The keys sent while a stream is followed: open the search, type, cancel
\* or clear.
StreamRunKeys == {"/", "a", "esc"}

UpdateKeyMsg == UpdateKey(StreamRunKeys)

\* The provider's log buffers the model starts from: none, and two lines
\* around an empty one.
ProviderBuffers == { <<>>, << <<"A", "b">>, <<>>, <<"b">> >> }

\* A viewer as NewLogViewer builds it.  No function of the package assigns
\* logStream; the model also starts from viewers that have a handle attached,
\* as the reads of streamLogs on a handle presuppose.
InitLog ==
    /\ podSelected \in BOOLEAN
    /\ providerBuffer \in ProviderBuffers
    /\ logStream \in {"nil", "open"}
    /\ logLines = NewLogViewer.logLines
    /\ filteredLines = NewLogViewer.filteredLines
    /\ streamCancelled = NewLogViewer.streamCancelled
    /\ followMode = NewLogViewer.followMode
    /\ showTimestamps = NewLogViewer.showTimestamps
    /\ wrapLines = NewLogViewer.wrapLines
    /\ lvSearchMode = NewLogViewer.searchMode
    /\ searchInput = NewLogViewer.searchInput
    /\ searchQuery = NewLogViewer.searchQuery
    /\ searchResults = NewLogViewer.searchResults
    /\ currentResult = NewLogViewer.currentResult
    /\ searchHistory = NewLogViewer.searchHistory
    /\ lastError = NewLogViewer.lastError
    /\ showError = NewLogViewer.showError
    /\ vpYOffset = NewLogViewer.yOffset
    /\ vpLines = NewLogViewer.vpLines
    /\ lvInited = FALSE
    /\ pendingStart = 0
    /\ pendingReads = 0
    /\ inbox = {}
    /\ arrived = <<>>
    /\ logStep = "NewLogViewer"
    /\ readDeadline \in BOOLEAN
    /\ sourceStalled = FALSE

(***************************************************************************)
(* models.Kubeoptic and tui.App                                            *)
(***************************************************************************)
\* NewKubeoptic: the Context view, namespace "default", nothing loaded.
NewKubeoptic ==
    [focusedView |-> "ContextView", contexts |-> {}, namespaces |-> {},
     pods |-> <<>>, filteredPods |-> <<>>, selectedContext |-> "",
     selectedNamespace |-> "default", selectedPod |-> "nil",
     logStream |-> "nil", isFollowing |-> FALSE]

\* NewApp: the three-panel view with the Context panel focused.
NewApp ==
    [viewMode |-> "ThreePanelView", focusedPanel |-> "ContextPanel",
     helpVisible |-> FALSE, err |-> "nil", ready |-> FALSE,
     initialized |-> FALSE]

\* The selection a caller can read back from the Kubeoptic object.
Selection(k) ==
    [selectedContext |-> k.selectedContext,
     selectedNamespace |-> k.selectedNamespace,
     selectedPod |-> k.selectedPod, focusedView |-> k.focusedView]

InitApp ==
    /\ focusedView = NewKubeoptic.focusedView
    /\ contexts = NewKubeoptic.contexts
    /\ namespaces = NewKubeoptic.namespaces
    /\ pods = NewKubeoptic.pods
    /\ filteredPods = NewKubeoptic.filteredPods
    /\ selectedContext = NewKubeoptic.selectedContext
    /\ selectedNamespace = NewKubeoptic.selectedNamespace
    /\ selectedPod = NewKubeoptic.selectedPod
    /\ koLogStream = NewKubeoptic.logStream
    /\ isFollowing = NewKubeoptic.isFollowing
    /\ koStep = [op |-> "NewKubeoptic", arg |-> "", error |-> "nil",
                 before |-> Selection(NewKubeoptic)]
    /\ viewMode = NewApp.viewMode
    /\ appFocusedPanel = NewApp.focusedPanel
    /\ appHelpVisible = NewApp.helpVisible
    /\ appErr = NewApp.err
    /\ ready = NewApp.ready
    /\ initialized = NewApp.initialized
    /\ appStep = [msg |-> [type |-> "NewApp"], cmd |-> "nil", before |-> NewApp]

\* The Kubeoptic object and the App object, each as one value.
Ko == [focusedView |-> focusedView, contexts |-> contexts,
       namespaces |-> namespaces, pods |-> pods, filteredPods |-> filteredPods,
       selectedContext |-> selectedContext,
       selectedNamespace |-> selectedNamespace, selectedPod |-> selectedPod,
       logStream |-> koLogStream, isFollowing |-> isFollowing]

App == [viewMode |-> viewMode, focusedPanel |-> appFocusedPanel,
        helpVisible |-> appHelpVisible, err |-> appErr, ready |-> ready,
        initialized |-> initialized]

\* A Kubeoptic method's result: the object after it and the error it returns.
KoRet(k, e) == [ko |-> k, error |-> e]

\* What the services answer: a listing with the error it came with, and the
\* stream opened or "error".
ContextNames == {"c1", "c2"}
NamespaceListings ==
    {[err |-> "list failed", items |-> {}],
     [err |-> "nil", items |-> {"default", "kube-system"}]}
PodListings ==
    {[err |-> "list failed", items |-> <<>>],
     [err |-> "nil", items |-> <<>>],
     [err |-> "nil", items |-> <<"p1">>]}
PodLogStreams == {"error", "stream"}
ConfigLoads == {"error", "loaded"}

refreshNamespaces(k, listed) ==
    IF listed.err # "nil" THEN KoRet(k, "failed to refresh namespaces")
    ELSE KoRet([k EXCEPT !.namespaces = listed.items], "nil")

refreshPods(k, listed) ==
    IF listed.err # "nil" THEN KoRet(k, "failed to refresh pods")
    ELSE KoRet([k EXCEPT !.pods = listed.items,
                         !.filteredPods = listed.items], "nil")

\* Kubeoptic.startLogStream
koStartLogStream(k, opened) ==
    IF k.selectedPod = "nil" THEN KoRet(k, "no pod selected")
    ELSE IF opened = "error" THEN KoRet(k, "failed to start log stream")
    ELSE KoRet([k EXCEPT !.logStream = opened, !.isFollowing = TRUE], "nil")

LoadContexts(k, loaded, listed) ==
    IF loaded = "error" THEN KoRet(k, "failed to load contexts")
    ELSE refreshNamespaces([k EXCEPT !.contexts = ContextNames,
                                     !.selectedContext = "c1"], listed)

SelectContext(k, contextName, listed) ==
    IF contextName \in k.contexts
    THEN refreshNamespaces([k EXCEPT !.selectedContext = contextName,
                                     !.focusedView = "NamespaceView"], listed)
    ELSE KoRet(k, "context not found")

SelectNamespace(k, namespace, listed) ==
    refreshPods([k EXCEPT !.selectedNamespace = namespace,
                          !.focusedView = "PodView"], listed)

SelectPod(k, podName, opened) ==
    IF \E i \in 1..Len(k.filteredPods) : k.filteredPods[i] = podName
    THEN koStartLogStream([k EXCEPT !.selectedPod = podName,
                                    !.focusedView = "LogView"], opened)
    ELSE KoRet(k, "pod not found")

\* A handler's result in the App: the App after it and the command returned.
AppRet(a, cmd) == [app |-> a, cmd |-> cmd]

nextPanel(a, k) ==
    IF a.viewMode = "ThreePanelView"
    THEN CASE a.focusedPanel = "ContextPanel" ->
                 [a EXCEPT !.focusedPanel = "NamespacePanel"]
           [] a.focusedPanel = "NamespacePanel" ->
                 [a EXCEPT !.focusedPanel = IF Len(k.filteredPods) > 0
                                            THEN "PodPanel" ELSE "ContextPanel"]
           [] a.focusedPanel = "PodPanel" ->
                 [a EXCEPT !.focusedPanel = "ContextPanel"]
           [] OTHER -> a
    ELSE [a EXCEPT !.focusedPanel = "LogPanel"]

prevPanel(a, k) ==
    IF a.viewMode = "ThreePanelView"
    THEN CASE a.focusedPanel = "ContextPanel" ->
                 [a EXCEPT !.focusedPanel = IF Len(k.filteredPods) > 0
                                            THEN "PodPanel" ELSE "NamespacePanel"]
           [] a.focusedPanel = "NamespacePanel" ->
                 [a EXCEPT !.focusedPanel = "ContextPanel"]
           [] a.focusedPanel = "PodPanel" ->
                 [a EXCEPT !.focusedPanel = "NamespacePanel"]
           [] OTHER -> a
    ELSE [a EXCEPT !.focusedPanel = "LogPanel"]

\* App.navigateBack
appNavigateBack(a, k) ==
    CASE k.focusedView = "LogView" ->
             AppRet([a EXCEPT !.viewMode = "ThreePanelView",
                              !.focusedPanel = "PodPanel"], "updateFocus")
      [] k.focusedView = "PodView" ->
             AppRet([a EXCEPT !.focusedPanel = "NamespacePanel"], "updateFocus")
      [] k.focusedView = "NamespaceView" ->
             AppRet([a EXCEPT !.focusedPanel = "ContextPanel"], "updateFocus")
      [] OTHER -> AppRet(a, "nil")

\* The keys the App is sent: its global bindings and one key it routes on.
AppKeys == {"q", "?", "tab", "shift+tab", "f", "esc", "x"}

\* A variant in which the quit keys are looked at before the error overlay.
appKeyMsg_QuitsOverError(a, k, key) ==
    IF key \in {"ctrl+c", "q"} THEN AppRet(a, "tea.Quit")
    ELSE IF a.err # "nil" THEN AppRet([a EXCEPT !.err = "nil"], "nil")
    ELSE IF a.helpVisible
    THEN (IF key \in {"?", "esc"}
          THEN AppRet([a EXCEPT !.helpVisible = FALSE], "nil")
          ELSE AppRet(a, "nil"))
    ELSE CASE key \in {"ctrl+c", "q"} -> AppRet(a, "tea.Quit")
           [] key = "?" -> AppRet([a EXCEPT !.helpVisible = TRUE], "nil")
           [] key = "tab" -> AppRet(nextPanel(a, k), "updateFocus")
           [] key = "shift+tab" -> AppRet(prevPanel(a, k), "updateFocus")
           [] key \in {"f", "F11"} ->
                 IF a.viewMode = "ThreePanelView"
                 THEN AppRet([a EXCEPT !.viewMode = "LogFullScreen",
                                       !.focusedPanel = "LogPanel"], "updateFocus")
                 ELSE AppRet([a EXCEPT !.viewMode = "ThreePanelView",
                                       !.focusedPanel = "PodPanel"], "updateFocus")
           [] key = "esc" ->
                 IF a.viewMode = "LogFullScreen"
                 THEN AppRet([a EXCEPT !.viewMode = "ThreePanelView",
                                       !.focusedPanel = "PodPanel"], "updateFocus")
                 ELSE appNavigateBack(a, k)
           [] OTHER -> AppRet(a, "routeKeyEvent")

\* A variant in which Esc always asks navigateBack, full screen or not.
appKeyMsg_EscAlwaysBack(a, k, key) ==
    IF a.err # "nil" THEN AppRet([a EXCEPT !.err = "nil"], "nil")
    ELSE IF a.helpVisible
    THEN (IF key \in {"?", "esc"}
          THEN AppRet([a EXCEPT !.helpVisible = FALSE], "nil")
          ELSE AppRet(a, "nil"))
    ELSE CASE key \in {"ctrl+c", "q"} -> AppRet(a, "tea.Quit")
           [] key = "?" -> AppRet([a EXCEPT !.helpVisible = TRUE], "nil")
           [] key = "tab" -> AppRet(nextPanel(a, k), "updateFocus")
           [] key = "shift+tab" -> AppRet(prevPanel(a, k), "updateFocus")
           [] key \in {"f", "F11"} ->
                 IF a.viewMode = "ThreePanelView"
                 THEN AppRet([a EXCEPT !.viewMode = "LogFullScreen",
                                       !.focusedPanel = "LogPanel"], "updateFocus")
                 ELSE AppRet([a EXCEPT !.viewMode = "ThreePanelView",
                                       !.focusedPanel = "PodPanel"], "updateFocus")
           [] key = "esc" -> appNavigateBack(a, k)
           [] OTHER -> AppRet(a, "routeKeyEvent")

\* The KeyMsg case of App.Update.
appKeyMsg(a, k, key) ==
    IF a.err # "nil" THEN AppRet([a EXCEPT !.err = "nil"], "nil")
    ELSE IF a.helpVisible
    THEN (IF key \in {"?", "esc"}
          THEN AppRet([a EXCEPT !.helpVisible = FALSE], "nil")
          ELSE AppRet(a, "nil"))
    ELSE CASE key \in {"ctrl+c", "q"} -> AppRet(a, "tea.Quit")
           [] key = "?" -> AppRet([a EXCEPT !.helpVisible = TRUE], "nil")
           [] key = "tab" -> AppRet(nextPanel(a, k), "updateFocus")
           [] key = "shift+tab" -> AppRet(prevPanel(a, k), "updateFocus")
           [] key \in {"f", "F11"} ->
                 IF a.viewMode = "ThreePanelView"
                 THEN AppRet([a EXCEPT !.viewMode = "LogFullScreen",
                                       !.focusedPanel = "LogPanel"], "updateFocus")
                 ELSE AppRet([a EXCEPT !.viewMode = "ThreePanelView",
                                       !.focusedPanel = "PodPanel"], "updateFocus")
           [] key = "esc" ->
                 IF a.viewMode = "LogFullScreen"
                 THEN AppRet([a EXCEPT !.viewMode = "ThreePanelView",
                                       !.focusedPanel = "PodPanel"], "updateFocus")
                 ELSE appNavigateBack(a, k)
           [] OTHER -> AppRet(a, "routeKeyEvent")

\* The messages the App is sent besides keys; Context, Pod and Error are the
\* pointer or error carried, "nil" when there is none.
AppMsgs ==
    {[type |-> "WindowSizeMsg"], [type |-> "InitCompleteMsg"],
     [type |-> "ClearStatusMsg"], [type |-> "StatusMsg"]}
    \cup {[type |-> "ContextSelectedMsg", Context |-> c] : c \in {"nil", "c1"}}
    \cup {[type |-> "PodSelectedMsg", Pod |-> q] : q \in {"nil", "p1"}}
    \cup {[type |-> "ErrorMsg", Error |-> e] : e \in {"test error"}}
    \cup {[type |-> "KeyMsg", key |-> key] : key \in AppKeys}

\* App.Update
AppUpdate(a, k, msg) ==
    CASE msg.type = "WindowSizeMsg" -> AppRet([a EXCEPT !.ready = TRUE], "nil")
      [] msg.type = "KeyMsg" -> appKeyMsg(a, k, msg.key)
      [] msg.type = "InitCompleteMsg" ->
             AppRet([a EXCEPT !.initialized = TRUE], "updateFocus")
      [] msg.type = "ContextSelectedMsg" ->
             IF msg.Context # "nil"
             THEN AppRet([a EXCEPT !.focusedPanel = "NamespacePanel"], "RefreshData")
             ELSE AppRet(a, "nil")
      [] msg.type = "PodSelectedMsg" ->
             IF msg.Pod # "nil"
             THEN AppRet([a EXCEPT !.viewMode = "LogFullScreen",
                                   !.focusedPanel = "LogPanel"], "updateFocus")
             ELSE AppRet(a, "nil")
      [] msg.type = "ErrorMsg" -> AppRet([a EXCEPT !.err = msg.Error], "nil")
      [] msg.type = "ClearStatusMsg" -> AppRet([a EXCEPT !.err = "nil"], "nil")
      [] OTHER -> AppRet(a, "updateComponents")

\* App.View: which screen is rendered.
AppView(a) ==
    IF ~a.ready THEN "Initializing"
    ELSE IF a.err # "nil" THEN "renderError"
    ELSE IF a.helpVisible THEN "renderHelpOverlay"
    ELSE IF a.viewMode = "ThreePanelView" THEN "renderThreePanelView"
    ELSE "renderLogFullScreen"

(***************************************************************************)
(* Kubeoptic and App actions                                               *)
(***************************************************************************)
SetKo(k) ==
    /\ focusedView' = k.focusedView
    /\ contexts' = k.contexts
    /\ namespaces' = k.namespaces
    /\ pods' = k.pods
    /\ filteredPods' = k.filteredPods
    /\ selectedContext' = k.selectedContext
    /\ selectedNamespace' = k.selectedNamespace
    /\ selectedPod' = k.selectedPod
    /\ koLogStream' = k.logStream
    /\ isFollowing' = k.isFollowing
    /\ UNCHANGED <<appFields, appStep, navVars, logVars>>

\* The record of a Kubeoptic call: the method, its argument, the error it
\* returned and the selection before the call.
KoStep(op, arg, e) ==
    [op |-> op, arg |-> arg, error |-> e, before |-> Selection(Ko)]

DoLoadContexts ==
    \E loaded \in ConfigLoads, listed \in NamespaceListings :
        LET r == LoadContexts(Ko, loaded, listed) IN
        /\ SetKo(r.ko)
        /\ koStep' = KoStep("LoadContexts", "", r.error)

DoSelectContext ==
    \E contextName \in ContextNames \cup {"zz"}, listed \in NamespaceListings :
        LET r == SelectContext(Ko, contextName, listed) IN
        /\ SetKo(r.ko)
        /\ koStep' = KoStep("SelectContext", contextName, r.error)

DoSelectNamespace ==
    \E namespace \in {"kube-system"}, listed \in PodListings :
        LET r == SelectNamespace(Ko, namespace, listed) IN
        /\ SetKo(r.ko)
        /\ koStep' = KoStep("SelectNamespace", namespace, r.error)

DoSelectPod ==
    \E podName \in {"p1", "zz"}, opened \in PodLogStreams :
        LET r == SelectPod(Ko, podName, opened) IN
        /\ SetKo(r.ko)
        /\ koStep' = KoStep("SelectPod", podName, r.error)

\* App.Update on one message; the record keeps the message, the command
\* returned, and the App and the pod list before the call.
DoAppUpdate ==
    \E msg \in AppMsgs :
        LET r == AppUpdate(App, Ko, msg) IN
        /\ viewMode' = r.app.viewMode
        /\ appFocusedPanel' = r.app.focusedPanel
        /\ appHelpVisible' = r.app.helpVisible
        /\ appErr' = r.app.err
        /\ ready' = r.app.ready
        /\ initialized' = r.app.initialized
        /\ appStep' = [msg |-> msg, cmd |-> r.cmd, before |-> App]
        /\ UNCHANGED <<koFields, koStep, navVars, logVars>>

\* The navigation runs: a log viewer that is built and never started.
InitNavRun ==
    /\ InitNav
    /\ InitLog
    /\ InitApp
    /\ readDeadline
    /\ podSelected = FALSE
    /\ providerBuffer = <<>>
    /\ logStream = "nil"

NextLog ==
    \/ LvInit
    \/ RunStartLogStream
    \/ RunStreamLogs
    \/ UpdateLogChunk
    \/ UpdateErrorMsg
    \/ UpdateLogStreamStarted
    \/ UpdateLogStreamStopped
    \/ UpdateKeyMsg

\* The log viewer runs: a fresh navigation state that nothing drives.
InitLogRun == InitNav /\ InitLog /\ InitApp /\ readDeadline

SpecLog == InitLogRun /\ [][NextLog]_vars

\* A viewer with a pod selected and a handle attached.
InitStreamRun ==
    /\ InitNav
    /\ InitLog
    /\ InitApp
    /\ readDeadline
    /\ podSelected = TRUE
    /\ providerBuffer = <<>>
    /\ logStream = "open"

\* The search runs: the viewer is sent the search keys and rendering passes
\* between the reads.
SearchRunKeys == {"/", "a", "esc", "n", "N"}

UpdateSearchKeyMsg == UpdateKey(SearchRunKeys)

InitSearchRun == InitStreamRun

NextSearch ==
    \/ LvInit
    \/ RunStreamLogs
    \/ UpdateLogChunk
    \/ UpdateSearchKeyMsg
    \/ View

SpecSearch == InitSearchRun /\ [][NextSearch]_vars

\* The follow runs: the viewer is sent follow toggles and rendering passes
\* between the reads.
InitFollowRun == InitStreamRun

NextFollow ==
    \/ LvInit
    \/ RunStreamLogs
    \/ UpdateLogChunk
    \/ UpdateToggleFollow
    \/ View

SpecFollow == InitFollowRun /\ [][NextFollow]_vars

\* The search-history runs: a viewer without a handle, fed the provider's
\* buffer, on which queries are typed, confirmed and cleared.
HistoryRunKeys == {"/", "a", "B", "x", "enter", "esc", "backspace"}

UpdateHistoryKeyMsg == UpdateKey(HistoryRunKeys)

InitHistoryRun ==
    /\ InitNav
    /\ InitLog
    /\ InitApp
    /\ readDeadline
    /\ podSelected = TRUE
    /\ providerBuffer # <<>>
    /\ logStream = "nil"

NextHistory ==
    \/ LvInit
    \/ RunStreamLogs
    \/ UpdateLogChunk
    \/ UpdateHistoryKeyMsg

SpecHistory == InitHistoryRun /\ [][NextHistory]_vars

\* The source of the open stream stops sending, for good.
SourceStalls ==
    /\ logStream = "open"
    /\ ~sourceStalled
    /\ sourceStalled' = TRUE
    /\ UNCHANGED <<podSelected, providerBuffer, readDeadline, lvFields, lvInited,
                   pendingStart, pendingReads, inbox, arrived, logStep>>
    /\ UNCHANGED <<navVars, appVars>>

\* The stalled-source runs: a stream is followed on a handle with or without
\* read deadlines, and its source may stop sending. The runtime runs every
\* command it was handed.
InitStallRun ==
    /\ InitNav
    /\ InitLog
    /\ InitApp
    /\ podSelected = TRUE
    /\ providerBuffer = <<>>
    /\ logStream = "open"

NextStall ==
    \/ LvInit
    \/ RunStartLogStream
    \/ RunStreamLogs
    \/ UpdateLogChunk
    \/ UpdateLogStreamStarted
    \/ SourceStalls

SpecStall ==
    /\ InitStallRun
    /\ [][NextStall]_vars
    /\ WF_vars(RunStreamLogs)
    /\ WF_vars(RunStartLogStream)

\* The App runs: the App is sent messages while the Kubeoptic model it
\* reads is driven by selections.
InitAppRun ==
    /\ InitNav
    /\ InitLog
    /\ InitApp
    /\ podSelected = FALSE
    /\ providerBuffer = <<>>
    /\ logStream = "nil"
    /\ readDeadline

NextApp ==
    \/ DoSelectNamespace
    \/ DoSelectPod
    \/ DoAppUpdate

SpecApp == InitAppRun /\ [][NextApp]_vars

\* The selection runs: the Kubeoptic model alone, under every service answer.
InitKoRun ==
    /\ InitNav
    /\ InitLog
    /\ InitApp
    /\ podSelected = FALSE
    /\ providerBuffer = <<>>
    /\ logStream = "nil"
    /\ readDeadline

NextKo ==
    \/ DoLoadContexts
    \/ DoSelectContext
    \/ DoSelectNamespace
    \/ DoSelectPod

SpecKo == InitKoRun /\ [][NextKo]_vars

SpecNav == InitNavRun /\ [][NextNav]_vars

(***************************************************************************)
(* Claims about the navigation state machine and the event router          *)
(***************************************************************************)

\* The canonical panel of each view, as the specification names it.
CanonicalPanel(view) ==
    IF view = "ContextView" THEN "FocusContext"
    ELSE IF view = "NamespaceView" THEN "FocusNamespace"
    ELSE IF view = "PodView" THEN "FocusPod"
    ELSE "FocusLog"

\* The fixed transition table, as the specification lists it.
InTable(a, b) ==
    \/ a = "ContextView" /\ b = "NamespaceView"
    \/ a = "NamespaceView" /\ b = "PodView"
    \/ a = "PodView" /\ b = "LogView"
    \/ a = "LogView" /\ b = "PodView"
    \/ a = "PodView" /\ b = "NamespaceView"
    \/ a = "NamespaceView" /\ b = "ContextView"

C3_SearchPreemptsNavigation ==
    [][ (navStep'.op = "RouteEvent" /\ searchMode)
        => /\ currentView' = currentView
           /\ navStep'.arg \in {"esc", "backspace"}
                => /\ ~searchMode'
                   /\ navigationHistory' = navigationHistory
                   /\ previousView' = previousView ]_navVars

\* C10: every applied view change from A to B (B # A), by whichever call,
\* sets previousView = A, appends B to navigationHistory, sets focusedPanel to
\* B's canonical panel and clears searchMode, whatever they were before.
C10_AppliedViewChange ==
    [][ currentView' # currentView
        => /\ previousView' = currentView
           /\ navigationHistory' = Append(navigationHistory, currentView')
           /\ focusedPanel' = CanonicalPanel(currentView')
           /\ searchMode' = FALSE
           /\ helpVisible' = helpVisible ]_navVars

\* C10 witness: a view change was applied from a state in search mode whose
\* focus was on the search panel.
C10_Witness ==
    /\ navStep.op = "NavigateToView"
    /\ navStep.from # currentView
    /\ navStep.searchBefore
    /\ navStep.focusBefore = "FocusSearch"
    /\ currentView = "LogView"
    /\ focusedPanel = "FocusLog"
    /\ ~searchMode

(***************************************************************************)
(* Claims about the streaming log viewer                                   *)
(***************************************************************************)

\* The chunk messages in flight.
ChunksInFlight == {m \in inbox : m.type = "LogChunkMsg"}

\* The reads that are outstanding: issued and not yet run, or completed with
\* a message that Update has not handled yet.
Outstanding == pendingReads + Cardinality(ChunksInFlight)

\* This step is Update handling the chunk message m.
HandlesChunk(m) == m \in ChunksInFlight /\ m \notin inbox'

\* C4: after any sequence of chunk appends the buffer holds at most
\* maxLogLines lines, and once more than maxLogLines non-empty lines have
\* arrived it holds exactly the most recent maxLogLines of them, in arrival
\* order (before that, all of them).
C4_BufferHoldsMostRecent ==
    /\ Len(logLines) <= maxLogLines
    /\ IF Len(arrived) > maxLogLines
       THEN logLines = [i \in 1..maxLogLines |->
                           arrived[Len(arrived) - maxLogLines + i]]
       ELSE logLines = arrived

\* C4 witness: two lines more than the buffer holds have arrived, and the
\* first line retained is not the first that arrived.
C4_Witness ==
    /\ Len(arrived) >= maxLogLines + 2
    /\ Len(logLines) = maxLogLines
    /\ logLines[1] = arrived[Len(arrived) - maxLogLines + 1]
    /\ logLines[1] # arrived[1]

\* C5 (as stated): once the stream has been stopped (handle released,
\* cancellation signalled), handling a LogChunkMsg that was still in flight
\* appends no line to the log buffer and issues no read.
C5_LateChunkDiscarded ==
    [][ \A m \in inbox :
          (HandlesChunk(m) /\ streamCancelled /\ logStream = "nil")
          => (logLines' = logLines /\ pendingReads' = pendingReads) ]_vars

\* C6: at every point at most one read is outstanding, and a read is issued
\* only by Init (the first) or from within the handler of the previous read's
\* completion message, data or error, one read per message.
C6_ReadsSerialized ==
    /\ [](Outstanding <= 1)
    /\ [][ pendingReads' > pendingReads
           => /\ pendingReads' = pendingReads + 1
              /\ \/ ~lvInited /\ lvInited'
                 \/ \E m \in inbox :
                       /\ HandlesChunk(m)
                       /\ m.Error # "nil" \/ ~m.EOF ]_vars

\* C6 witness: a read is outstanding that the handler of a data chunk issued,
\* after an earlier chunk had been handled.
C6_Witness ==
    /\ logStep = "chunk:data"
    /\ pendingReads = 1
    /\ Len(arrived) >= 2

\* C7: handling LogChunkMsg{EOF} returns no command and leaves the buffer
\* unchanged, no read is outstanding after it, and none becomes outstanding
\* again while the viewer is not started anew.
C7_EOFStopsReading ==
    /\ [][ \A m \in inbox :
             (HandlesChunk(m) /\ m.Error = "nil" /\ m.EOF)
             => /\ pendingReads' = pendingReads
                /\ logLines' = logLines
                /\ Outstanding' = 0 ]_vars
    /\ [][ (lvInited /\ Outstanding = 0) => Outstanding' = 0 ]_vars

\* C7 witness: the end of the stream was handled after lines had been read,
\* and nothing is outstanding.
C7_Witness ==
    /\ logStep = "chunk:eof"
    /\ Len(logLines) > 0
    /\ Outstanding = 0

\* C8: handling LogChunkMsg{Error} records the error for display, leaves the
\* log buffer, the search state and the stream handle unchanged and issues
\* exactly one read, also when the message before it was an error too.
C8_ErrorRetried ==
    [][ \A m \in inbox :
          (HandlesChunk(m) /\ m.Error # "nil")
          => /\ lastError' = m.Error
             /\ showError'
             /\ pendingReads' = pendingReads + 1
             /\ UNCHANGED <<logLines, filteredLines, searchQuery, searchResults,
                            currentResult, searchHistory, searchInput,
                            lvSearchMode, logStream, streamCancelled>> ]_vars

\* C8 witness: a second read error in a row was handled, with lines in the
\* buffer and a query active, and one read is outstanding again.
C8_Witness ==
    /\ logStep = "chunk:error:again"
    /\ lastError = "read timeout"
    /\ pendingReads = 1
    /\ Len(logLines) > 0
    /\ searchQuery # <<>>

\* C9 (as stated): when the viewer is started with no pod selected, the start
\* yields an error and no LogStreamStartedMsg, no read is issued and no line
\* is appended to the log buffer.
C9_StartWithoutPodIsTerminal ==
    ~podSelected
    => /\ \A m \in inbox : m.type # "LogStreamStartedMsg"
       /\ Outstanding = 0
       /\ logLines = <<>>

(***************************************************************************)
(* Claims about the navigation operations                                  *)
(***************************************************************************)

\* The fields of NavigationState the frame claims speak about.
navFields == <<currentView, previousView, focusedPanel, searchMode,
               navigationHistory>>

\* C11: a request for the view that is already current is a no-op:
\* currentView, previousView, focusedPanel, searchMode and navigationHistory
\* are unchanged and no command is returned.
C11_SameViewRequestIsNoOp ==
    [][ (navStep'.op = "NavigateToView" /\ navStep'.arg = currentView)
        => (UNCHANGED navFields /\ navStep'.cmd = "nil") ]_navVars

\* C11 witness: the Pod view was requested on the Pod view while search mode
\* was active, and search mode and the search focus are still there.
C11_Witness ==
    /\ navStep.op = "NavigateToView"
    /\ navStep.arg = "PodView"
    /\ navStep.from = "PodView"
    /\ navStep.cmd = "nil"
    /\ currentView = "PodView"
    /\ searchMode
    /\ focusedPanel = "FocusSearch"

\* The back-map of the specification: Log -> Pod, Pod -> Namespace,
\* Namespace -> Context, nothing behind Context.
BackOf(view) ==
    CASE view = "LogView"       -> "PodView"
      [] view = "PodView"       -> "NamespaceView"
      [] view = "NamespaceView" -> "ContextView"
      [] view = "ContextView"   -> "ContextView"

\* C12: NavigateBack follows the back-map and is a no-op (no state change, no
\* command) from the Context view; from the Log view it ends in the Pod view
\* with the Pod panel focused and search mode off, whatever they were.
C12_NavigateBackFollowsBackMap ==
    [][ navStep'.op = "NavigateBack"
        => /\ currentView' = BackOf(currentView)
           /\ currentView = "ContextView"
              => (UNCHANGED <<navFields, helpVisible>> /\ navStep'.cmd = "nil")
           /\ currentView = "LogView"
              => /\ currentView' = "PodView"
                 /\ focusedPanel' = "FocusPod"
                 /\ searchMode' = FALSE ]_navVars

\* C12 witness: NavigateBack was called on the Log view in search mode.
C12_Witness ==
    /\ navStep.op = "NavigateBack"
    /\ navStep.from = "LogView"
    /\ navStep.searchBefore
    /\ navStep.focusBefore = "FocusSearch"
    /\ currentView = "PodView"
    /\ focusedPanel = "FocusPod"
    /\ ~searchMode

\* The panels that may hold the focus on each view.
ValidFocus(view) ==
    CASE view = "ContextView"   -> {"FocusContext", "FocusSearch"}
      [] view = "NamespaceView" -> {"FocusContext", "FocusNamespace", "FocusSearch"}
      [] view = "PodView"       -> {"FocusContext", "FocusNamespace", "FocusPod",
                                    "FocusSearch"}
      [] view = "LogView"       -> {"FocusLog", "FocusSearch"}

\* C13: in every reachable state focusedPanel is valid for currentView.
C13_FocusValidForView == focusedPanel \in ValidFocus(currentView)

\* C13 witness: on the Pod view NextPanel has wrapped from the Pod panel to
\* the Context panel.
C13_Witness ==
    /\ navStep.op = "NextPanel"
    /\ navStep.focusBefore = "FocusPod"
    /\ currentView = "PodView"
    /\ focusedPanel = "FocusContext"

\* C14: every step that changes currentView appends exactly one entry (the
\* new view) to navigationHistory, every step that leaves currentView
\* unchanged leaves the history unchanged, and no entry is ever removed.
C14_HistoryGrowsOnlyOnViewChange ==
    [][ /\ currentView' # currentView
           => navigationHistory' = Append(navigationHistory, currentView')
        /\ currentView' = currentView
           => navigationHistory' = navigationHistory
        /\ Len(navigationHistory') >= Len(navigationHistory)
        /\ \A i \in 1..Len(navigationHistory) :
              navigationHistory'[i] = navigationHistory[i] ]_navVars

\* C14 witness: after three view changes a panel switch has changed the focus
\* and left the history as it was.
C14_Witness ==
    /\ Len(navigationHistory) = 4
    /\ navStep.op = "PrevPanel"
    /\ focusedPanel # navStep.focusBefore

\* C15: NextPanel and PrevPanel never change currentView, searchMode or
\* navigationHistory, and on the Context and Log views they also leave
\* focusedPanel unchanged and return no command.
C15_PanelSwitchFrame ==
    [][ navStep'.op \in {"NextPanel", "PrevPanel"}
        => /\ UNCHANGED <<currentView, searchMode, navigationHistory>>
           /\ currentView \in {"ContextView", "LogView"}
              => (focusedPanel' = focusedPanel /\ navStep'.cmd = "nil") ]_navVars

\* C15 witness: NextPanel was called on the Log view in search mode.
C15_Witness ==
    /\ navStep.op = "NextPanel"
    /\ navStep.from = "LogView"
    /\ navStep.cmd = "nil"
    /\ currentView = "LogView"
    /\ searchMode

\* The panels NextPanel and PrevPanel cycle through on each view, in order.
PanelCycle(view) ==
    CASE view = "NamespaceView" -> <<"FocusContext", "FocusNamespace">>
      [] view = "PodView"       -> <<"FocusContext", "FocusNamespace", "FocusPod">>
      [] OTHER                  -> <<>>

\* The focus is on a panel of the current view's cycle.
OnCycle(view, panel) ==
    \E i \in 1..Len(PanelCycle(view)) : PanelCycle(view)[i] = panel

\* NextPanel applied k times to the state n.
RECURSIVE NextPanelTimes(_, _)
NextPanelTimes(n, k) ==
    IF k = 0 THEN n ELSE NextPanelTimes(NextPanel(n).nav, k - 1)

\* C16: on the Namespace and Pod views, for every panel of the cycle,
\* NextPanel followed by PrevPanel (or the reverse) returns focusedPanel to
\* its starting value, and NextPanel applied as many times as the view has
\* panels returns to the starting panel.
C16_PanelCycleInverse ==
    /\ [][ ( /\ navStep.op = "NextPanel" /\ navStep'.op = "PrevPanel"
             /\ OnCycle(currentView, navStep.focusBefore) )
           => focusedPanel' = navStep.focusBefore ]_navVars
    /\ [][ ( /\ navStep.op = "PrevPanel" /\ navStep'.op = "NextPanel"
             /\ OnCycle(currentView, navStep.focusBefore) )
           => focusedPanel' = navStep.focusBefore ]_navVars
    /\ [](OnCycle(currentView, focusedPanel)
           => /\ NextPanelTimes(Nav, Len(PanelCycle(currentView))).focusedPanel
                    = focusedPanel
              /\ PrevPanel(NextPanel(Nav).nav).nav.focusedPanel = focusedPanel
              /\ NextPanel(PrevPanel(Nav).nav).nav.focusedPanel = focusedPanel)

\* C16 witness: on the Pod view PrevPanel has wrapped from the Context panel
\* to the Pod panel.
C16_Witness ==
    /\ navStep.op = "PrevPanel"
    /\ navStep.from = "PodView"
    /\ navStep.focusBefore = "FocusContext"
    /\ focusedPanel = "FocusPod"

\* C17: EnterSearchMode sets searchMode and focuses Search without changing
\* currentView; ExitSearchMode clears searchMode and focuses the canonical
\* panel of currentView, without changing currentView or the history.
C17_SearchModeEnterExit ==
    [][ /\ navStep'.op = "EnterSearchMode"
           => /\ searchMode' = TRUE
              /\ focusedPanel' = "FocusSearch"
              /\ currentView' = currentView
        /\ navStep'.op = "ExitSearchMode"
           => /\ searchMode' = FALSE
              /\ focusedPanel' = CanonicalPanel(currentView)
              /\ UNCHANGED <<currentView, navigationHistory>> ]_navVars

\* C17 witness: ExitSearchMode was called on the Pod view in search mode, and
\* the focus is on the Pod panel.
C17_Witness ==
    /\ navStep.op = "ExitSearchMode"
    /\ navStep.from = "PodView"
    /\ navStep.searchBefore
    /\ navStep.focusBefore = "FocusSearch"
    /\ focusedPanel = "FocusPod"
    /\ ~searchMode

(***************************************************************************)
(* Claims about the event router                                           *)
(***************************************************************************)

\* C18: for every view, focused panel and search mode, routing a Quit key
\* yields the quit command and routing a Help key yields the show-help
\* message, both handled, and neither changes currentView, focusedPanel or
\* searchMode.
C18_GlobalKeysIntercepted ==
    [][ navStep'.op = "RouteEvent"
        => /\ navStep'.arg \in DefaultKeyMap.Quit
              => /\ navStep'.cmd = "Quit"
                 /\ navStep'.handled
                 /\ UNCHANGED <<currentView, focusedPanel, searchMode>>
           /\ navStep'.arg \in DefaultKeyMap.Help
              => /\ navStep'.cmd = "ShowHelpMsg"
                 /\ navStep'.handled
                 /\ UNCHANGED <<currentView, focusedPanel, searchMode>> ]_navVars

\* C18 witness: ctrl+c, which is also the clear-search key, was routed on the
\* Pod view in search mode and answered with the quit command.
C18_Witness ==
    /\ navStep.op = "RouteEvent"
    /\ navStep.arg = "ctrl+c"
    /\ navStep.from = "PodView"
    /\ navStep.searchBefore
    /\ navStep.cmd = "Quit"
    /\ navStep.handled
    /\ searchMode

\* C19: outside search mode the Enter key advances one level when the view's
\* own panel is focused (Context -> Namespace, Namespace -> Pod, Pod -> Log),
\* handled with a selection message; on the Namespace or Pod view with
\* another panel focused it is unhandled and the navigation state unchanged.
C19_EnterAdvancesOneLevel ==
    [][ ( /\ navStep'.op = "RouteEvent"
          /\ navStep'.arg \in DefaultKeyMap.Enter
          /\ ~searchMode )
        => CASE currentView = "ContextView" ->
                   /\ focusedPanel = "FocusContext"
                   /\ currentView' = "NamespaceView"
                   /\ navStep'.handled
                   /\ navStep'.cmd = "ContextSelectedMsg+FocusChangedMsg"
             [] currentView = "NamespaceView" /\ focusedPanel = "FocusNamespace" ->
                   /\ currentView' = "PodView"
                   /\ navStep'.handled
                   /\ navStep'.cmd = "NamespacesLoadedMsg+FocusChangedMsg"
             [] currentView = "PodView" /\ focusedPanel = "FocusPod" ->
                   /\ currentView' = "LogView"
                   /\ navStep'.handled
                   /\ navStep'.cmd = "PodSelectedMsg+FocusChangedMsg"
             [] currentView = "LogView" -> TRUE
             [] OTHER ->
                   /\ ~navStep'.handled
                   /\ navStep'.cmd = "nil"
                   /\ UNCHANGED <<navFields, helpVisible>> ]_navVars

\* C19 witness: Enter was routed on the Namespace view with the Context panel
\* focused and was not handled.
C19_Witness ==
    /\ navStep.op = "RouteEvent"
    /\ navStep.arg = "enter"
    /\ navStep.from = "NamespaceView"
    /\ navStep.focusBefore = "FocusContext"
    /\ ~navStep.searchBefore
    /\ ~navStep.handled
    /\ currentView = "NamespaceView"

\* C20: on the Log view outside search mode the follow, wrap and save keys
\* are handled, each with its own message, and leave the navigation state
\* unchanged.
C20_LogViewActionKeys ==
    [][ ( /\ navStep'.op = "RouteEvent"
          /\ currentView = "LogView"
          /\ ~searchMode )
        => /\ navStep'.arg \in DefaultKeyMap.Follow
              => navStep'.cmd = "ToggleFollowMsg"
           /\ navStep'.arg \in DefaultKeyMap.ToggleWrap
              => navStep'.cmd = "ToggleWrapMsg"
           /\ navStep'.arg \in DefaultKeyMap.SaveLogs
              => navStep'.cmd = "SaveLogsMsg"
           /\ navStep'.arg \in (DefaultKeyMap.Follow \cup DefaultKeyMap.ToggleWrap
                                  \cup DefaultKeyMap.SaveLogs)
              => (navStep'.handled /\ UNCHANGED <<navFields, helpVisible>>)
      ]_navVars

\* C20 witness: the save key was routed on the Log view and answered with
\* SaveLogsMsg.
C20_Witness ==
    /\ navStep.op = "RouteEvent"
    /\ navStep.arg = "s"
    /\ navStep.from = "LogView"
    /\ ~navStep.searchBefore
    /\ navStep.cmd = "SaveLogsMsg"
    /\ navStep.handled
    /\ currentView = "LogView"

\* The keys the router acts on in the state it is in: the global and
\* navigation keys, the search-editing keys in search mode, and outside it the
\* keys of the current view.
RouterKeys ==
    LET k == DefaultKeyMap IN
    k.Quit \cup k.Help \cup k.Back \cup k.NextPanel \cup k.PrevPanel
    \cup k.Search \cup k.SwitchContext \cup k.SelectNamespace \cup k.SelectPod
    \cup (IF searchMode THEN k.Enter \cup k.ClearSearch
          ELSE CASE currentView \in {"ContextView", "NamespaceView"} ->
                       k.Enter \cup k.Refresh
                 [] currentView = "PodView" ->
                       k.Enter \cup k.Refresh \cup k.ClearSearch
                 [] currentView = "LogView" ->
                       k.Follow \cup k.SaveLogs \cup k.ToggleWrap)

\* C21: a key that is no global, navigation, search-editing or view-specific
\* action, and a message that is no key, mouse or resize message, is reported
\* unhandled with no command and leaves the navigation state unchanged.
C21_UnmatchedForwarded ==
    [][ ( /\ navStep'.op = "RouteEvent"
          /\ \/ navStep'.arg \in Keys \ RouterKeys
             \/ navStep'.arg \in OtherMsgs )
        => /\ ~navStep'.handled
           /\ navStep'.cmd = "nil"
           /\ UNCHANGED <<navFields, helpVisible>> ]_navVars

\* C21 witness: a key no binding names was routed on the Pod view in search
\* mode and was not handled.
C21_Witness ==
    /\ navStep.op = "RouteEvent"
    /\ navStep.arg = "x"
    /\ navStep.from = "PodView"
    /\ navStep.searchBefore
    /\ ~navStep.handled
    /\ navStep.cmd = "nil"
    /\ searchMode

\* The 0-based indices of the lines of buf that contain q, letter case aside.
MatchSet(buf, q) ==
    {i \in 0..(Len(buf) - 1) :
        \E k \in 0..(Len(buf[i + 1]) - Len(q)) :
            \A j \in 1..Len(q) :
                LowerChar(buf[i + 1][k + j]) = LowerChar(q[j])}

\* The elements of a set of numbers in ascending order.
Ascending(S) ==
    CHOOSE s \in [1..Cardinality(S) -> S] :
        \A i, j \in 1..Cardinality(S) : i < j => s[i] < s[j]

\* The first n elements of a sequence, all of them when it is shorter.
FirstN(s, n) == SubSeq(s, 1, Min(n, Len(s)))

\* C22: searchResults is the ascending list of the buffer indices of the lines
\* containing the query case-insensitively, cut to the first maxSearchResults;
\* with an empty query it is empty and the whole buffer is shown; recomputing
\* with the same buffer and query changes nothing.
C22_ResultsFunctionOfBufferAndQuery ==
    /\ searchQuery # <<>> =>
           searchResults =
               FirstN(Ascending(MatchSet(logLines, searchQuery)), maxSearchResults)
    /\ searchQuery = <<>> => searchResults = <<>> /\ filteredLines = logLines
    /\ updateFilteredLines(LV) = LV

\* C22 witness: an upper-case query matches all three buffered lines, two of
\* them in lower case, and the list holds the first maxSearchResults of them.
C22_Witness ==
    /\ Len(logLines) = maxLogLines
    /\ searchQuery = <<"B">>
    /\ Cardinality(MatchSet(logLines, searchQuery)) > maxSearchResults
    /\ searchResults = <<0, 1>>
    /\ logStep \in {"key:B", "chunk:data"}

\* C23: with a non-empty query the filtered display list never holds more
\* than maxSearchResults lines.
C23_FilteredListCapped ==
    searchQuery # <<>> => Len(filteredLines) <= maxSearchResults

\* The step is the viewer's Update on the key k: no command is run by it.
KeyStep(k) ==
    /\ logStep' = "key:" \o k
    /\ UNCHANGED <<pendingStart, pendingReads>>

\* The cursor is a position in a match list that is not empty.
CursorInList ==
    /\ Len(searchResults) > 0
    /\ currentResult \in 0..(Len(searchResults) - 1)

\* C24: from any cursor position in a non-empty match list, nextSearchResult
\* followed by prevSearchResult, and prevSearchResult followed by
\* nextSearchResult, return the cursor to its original value.
C24_NextPrevInverse ==
    [][ (CursorInList /\ ~lvSearchMode) =>
          /\ KeyStep("n") =>
                 prevSearchResult(LV').currentResult = currentResult
          /\ KeyStep("N") =>
                 nextSearchResult(LV').currentResult = currentResult ]_vars

\* C24 witness: with two matches, the previous-match key has taken the cursor
\* from the first match round to the last.
C24_Witness ==
    /\ logStep = "key:N"
    /\ ~lvSearchMode
    /\ Len(searchResults) = 2
    /\ currentResult = 1
    /\ nextSearchResult(LV).currentResult = 0

\* The viewport holds the content the filtered lines render to.
ContentFresh == vpLines = renderLogContent(LV)

\* The viewport is placed so that the line of the displayed list that belongs
\* to the current match is the centred one, as far as the content allows.
MatchCentred ==
    vpYOffset = Min(Max(0, currentResult - (viewportHeight \div 2)),
                    Max(0, Len(filteredLines) - viewportHeight))

\* C25: match navigation moves the cursor circularly, places the viewport so
\* that the matched line is the centred line of the displayed list, and
\* changes neither cursor nor viewport when the match list is empty.
C25_MatchNavigationCentres ==
    [][ (~lvSearchMode /\ ContentFresh) =>
          /\ (KeyStep("n") /\ CursorInList) =>
                 /\ currentResult' = IF currentResult = Len(searchResults) - 1
                                     THEN 0 ELSE currentResult + 1
                 /\ MatchCentred'
          /\ (KeyStep("N") /\ CursorInList) =>
                 /\ currentResult' = IF currentResult = 0
                                     THEN Len(searchResults) - 1
                                     ELSE currentResult - 1
                 /\ MatchCentred'
          /\ ((KeyStep("n") \/ KeyStep("N")) /\ searchResults = <<>>) =>
                 UNCHANGED <<currentResult, vpYOffset>> ]_vars

NoDuplicates(s) == \A i, j \in 1..Len(s) : i # j => s[i] # s[j]

\* The step is the confirmation of the typed query.
ConfirmStep == KeyStep("enter") /\ lvSearchMode

RECURSIVE ChunkLines(_)
ChunkLines(data) ==
    IF data = <<>> THEN <<>>
    ELSE IF Head(data) = NL THEN ChunkLines(Tail(data))
    ELSE LET ends == {i \in 1..Len(data) : data[i] = NL}
             n == IF ends = {} THEN Len(data) + 1
                  ELSE CHOOSE i \in ends : \A k \in ends : i <= k
         IN <<SubSeq(data, 1, n - 1)>> \o ChunkLines(SubSeq(data, n, Len(data)))

\* The last n elements of a sequence, all of them when it is shorter.
LastUpTo(s, n) == SubSeq(s, Max(1, Len(s) - n + 1), Len(s))

\* C28: handling a data chunk splits it on newline, drops the empty lines and
\* pushes the others, in their order, after the lines already buffered (the
\* oldest leaving at capacity); the filter view after the step is the one of
\* the buffer with all lines of the chunk applied.
C28_AppendSplitsAndOrders ==
    [][ \A m \in inbox :
          (HandlesChunk(m) /\ ChunkKind(m) = "data") =>
             /\ logLines' = LastUpTo(logLines \o ChunkLines(m.Data), maxLogLines)
             /\ searchQuery' = searchQuery
             /\ IF searchQuery = <<>>
                THEN filteredLines' = logLines' /\ searchResults' = <<>>
                ELSE /\ filteredLines' =
                            SelectSeq(logLines',
                                      LAMBDA l : MatchSet(<<l>>, searchQuery) # {})
                     /\ searchResults' =
                            FirstN(Ascending(MatchSet(logLines', searchQuery)),
                                   maxSearchResults) ]_vars

\* C28 witness: a chunk of two lines with an empty line between them was
\* appended after two buffered lines while a query was active, and the oldest
\* line left the buffer.
C28_Witness ==
    /\ logStep = "chunk:data"
    /\ logLines = << <<"b">>, <<"A", "b">>, <<"b">> >>
    /\ arrived = << <<"A", "b">>, <<"b">>, <<"A", "b">>, <<"b">> >>
    /\ searchQuery = <<"a">>
    /\ filteredLines = << <<"A", "b">> >>
    /\ searchResults = <<1>>

\* The viewer once the rendering pass that follows an Update has run on it.
Rendered(lv) == SetContent(lv, renderLogContent(lv))

\* The step is the viewer's Update on ToggleFollowMsg.
ToggleStep ==
    /\ logStep' = "ToggleFollowMsg"
    /\ UNCHANGED <<pendingStart, pendingReads>>

\* C29: with follow mode on, a handled data chunk leaves the viewport, once
\* rendered, at the bottom of the displayed lines, the last appended line at
\* the bottom of the view; with follow mode off it leaves the offset
\* unchanged; ToggleFollowMsg flips follow mode.
C29_FollowKeepsLastLineInView ==
    [][ /\ \A m \in inbox :
             (HandlesChunk(m) /\ ChunkKind(m) = "data" /\ ContentFresh) =>
                /\ followMode =>
                       Rendered(LV').yOffset =
                           Max(0, Len(filteredLines') - viewportHeight)
                /\ ~followMode => vpYOffset' = vpYOffset
        /\ ToggleStep => followMode' = ~followMode ]_vars

\* The step is the viewer's Update on LogStreamStoppedMsg.
StoppedStep ==
    /\ logStep' = "LogStreamStoppedMsg"
    /\ UNCHANGED <<pendingStart, pendingReads, inbox>>

\* C30: after LogStreamStoppedMsg the buffer holds none of the lines received
\* before it, and the query, the matches and the cursor are reset.
C30_StopDiscardsBufferAndSearch ==
    [][ StoppedStep =>
          /\ logLines' = <<>>
          /\ filteredLines' = <<>>
          /\ searchQuery' = <<>>
          /\ searchResults' = <<>>
          /\ currentResult' = 0 ]_vars

\* C35: in every reachable navigation state searchMode is on exactly when
\* the Search panel holds the focus.
C35_SearchModeIffSearchFocus == searchMode <=> (focusedPanel = "FocusSearch")

\* C35 witness: NextPanel was called on the Pod view in search mode and the
\* focus is still on the Search panel with search mode on.
C35_Witness ==
    /\ navStep.op = "NextPanel"
    /\ navStep.searchBefore
    /\ navStep.focusBefore = "FocusSearch"
    /\ currentView = "PodView"
    /\ searchMode
    /\ focusedPanel = "FocusSearch"

\* C36: in every reachable navigation state the history is not empty, starts
\* with the Context view, ends with the current view, has no two equal
\* neighbours, and previousView is its last entry but one when there is one.
C36_HistoryConsistent ==
    /\ Len(navigationHistory) >= 1
    /\ navigationHistory[1] = "ContextView"
    /\ navigationHistory[Len(navigationHistory)] = currentView
    /\ \A i \in 1..(Len(navigationHistory) - 1) :
           navigationHistory[i] # navigationHistory[i + 1]
    /\ Len(navigationHistory) > 1 =>
           previousView = navigationHistory[Len(navigationHistory) - 1]

\* C36 witness: after a direct jump and two steps back the history holds four
\* entries and the view before the current one is its third.
C36_Witness ==
    /\ navigationHistory =
           <<"ContextView", "PodView", "NamespaceView", "ContextView">>
    /\ currentView = "ContextView"
    /\ previousView = "NamespaceView"
    /\ navStep.op \in {"NavigateBack", "RouteEvent"}

\* C37: whenever the match list is not empty the cursor is the position of
\* one of its entries.
C37_CursorAddressesMatch ==
    Len(searchResults) > 0 =>
        (0 <= currentResult /\ currentResult < Len(searchResults))

\* The number of entries of the sequence s that equal x.
Count(s, x) == Cardinality({i \in 1..Len(s) : s[i] = x})

\* C38: with no stream handle attached, the buffer never holds more copies of
\* a line than the provider's log buffer supplied.
C38_ProviderLinesAtMostOnce ==
    logStream = "nil" =>
        \A i \in 1..Len(logLines) :
            Count(logLines, logLines[i]) <= Count(providerBuffer, logLines[i])

\* C32: every read that was issued completes with a message, whatever the
\* kind of the stream handle, when the runtime runs the commands it is handed.
C32_EveryReadCompletes == (pendingReads > 0) ~> (pendingReads = 0)

\* C40: a selection that returns an error leaves the selection unchanged:
\* after SelectContext, SelectNamespace or SelectPod returned an error,
\* selectedContext, selectedNamespace, selectedPod and focusedView have the
\* values they had before the call.
C40_FailedSelectionKeepsState ==
    (koStep.op \in {"SelectContext", "SelectNamespace", "SelectPod"}
        /\ koStep.error # "nil")
    => Selection(Ko) = koStep.before

\* C34: in the three-panel view prevPanel undoes nextPanel from the focused
\* panel, with the pod list as it is.
C34_PrevUndoesNext ==
    (viewMode = "ThreePanelView"
        /\ appFocusedPanel \in {"ContextPanel", "NamespacePanel", "PodPanel"})
    => prevPanel(nextPanel(App, Ko), Ko).focusedPanel = appFocusedPanel

\* C39: the log view is full screen exactly when the log panel is focused.
C39_FullScreenIffLogPanel ==
    viewMode = "LogFullScreen" <=> appFocusedPanel = "LogPanel"

\* C31: an ErrorMsg is stored and shown as the overlay and returns no
\* command; a key pressed while an error is stored clears it and returns no
\* command, as does ClearStatusMsg; the quit command is returned only for a
\* quit key pressed while no error is stored.
C31_ErrorOverlayNeverQuits ==
    /\ appStep.msg.type = "ErrorMsg"
        => /\ appErr = appStep.msg.Error
           /\ appStep.cmd = "nil"
           /\ ready => AppView(App) = "renderError"
    /\ (appStep.msg.type = "KeyMsg" /\ appStep.before.err # "nil")
        => (appErr = "nil" /\ appStep.cmd = "nil")
    /\ appStep.msg.type = "ClearStatusMsg"
        => (appErr = "nil" /\ appStep.cmd = "nil")
    /\ appStep.cmd = "tea.Quit"
        => /\ appStep.msg.type = "KeyMsg"
           /\ appStep.msg.key \in {"ctrl+c", "q"}
           /\ appStep.before.err = "nil"

\* The quit key pressed over a shown error overlay: the error is dismissed.
C31_Witness ==
    /\ appStep.msg.type = "KeyMsg"
    /\ appStep.msg.key = "q"
    /\ appStep.before.ready
    /\ AppView(appStep.before) = "renderError"
    /\ appErr = "nil"
    /\ appStep.cmd = "nil"

\* The key reached the App's own bindings: no error and no help overlay
\* was up when it was pressed.
KeyDispatched(key) ==
    /\ appStep.msg.type = "KeyMsg"
    /\ appStep.msg.key = key
    /\ appStep.before.err = "nil"
    /\ ~appStep.before.helpVisible

\* C33: 'f' pressed in the three-panel view enters the full-screen log view
\* with the log panel focused; 'f' or Esc pressed in the full-screen log view
\* returns to the three-panel view with the pod panel focused, whichever
\* panel was focused before.
C33_FullScreenToggle ==
    /\ (KeyDispatched("f") /\ appStep.before.viewMode = "ThreePanelView")
        => (viewMode = "LogFullScreen" /\ appFocusedPanel = "LogPanel")
    /\ ((KeyDispatched("f") \/ KeyDispatched("esc"))
            /\ appStep.before.viewMode = "LogFullScreen")
        => (viewMode = "ThreePanelView" /\ appFocusedPanel = "PodPanel")

\* Esc leaves the full-screen log view for the pod panel although the log
\* panel was not the one focused and the pod list is empty.
C33_Witness ==
    /\ KeyDispatched("esc")
    /\ appStep.before.viewMode = "LogFullScreen"
    /\ appStep.before.focusedPanel = "NamespacePanel"
    /\ filteredPods = <<>>
    /\ viewMode = "ThreePanelView"
    /\ appFocusedPanel = "PodPanel"

====
